---- MODULE Spec2Model ----
(***************************************************************************)
(* Model of the port-forward connection manager of pyqan/portFwd           *)
(* (internal/portforward/manager.go): the registry of connections, the     *)
(* callers of Start / Stop / Remove / Delete / StopAll, the tunnel worker  *)
(* goroutine (runPortForward) and the tunnel primitive it drives           *)
(* (client-go's ForwardPorts, a black box that closes readyChan, watches   *)
(* stopChan and reports on errChan).                                       *)
(*                                                                         *)
(* Locks are explicit.  Manager.mu and Connection.mu are sync.RWMutex: a   *)
(* critical section that the code enters and leaves without blocking in    *)
(* between is one atomic step guarded by "the lock is free"; a section     *)
(* that can block while holding the lock keeps the lock across steps.      *)
(***************************************************************************)
EXTENDS Naturals, FiniteSets, Sequences, TLC

\* ---- bounds -------------------------------------------------------------
NumIds == 1         \* distinct connection identities (the id string)
MaxConns == 2       \* Connection objects ever allocated by startPortForward
NumCallers == 2     \* goroutines calling the manager concurrently
MaxCalls == 2       \* manager calls issued in one run
MaxCallsShutdown == 3   \* manager calls issued in a run that also shuts down
MaxConnsShutdown == 1   \* Connection objects allocated in such a run
MaxRequests == 2        \* request lines a client writes on its IPC connection

Ids == 1..NumIds
Conns == 1..MaxConns
Callers == 1..NumCallers
NoConn == 0

\* ---- Status (manager.go:33-39) -------------------------------------------
StatusActive == "active"
StatusStopped == "stopped"
StatusError == "error"
StatusStarting == "starting"

VARIABLES
    connections,  \* Manager.connections: id -> Connection (NoConn: no entry)
    mu,           \* Manager.mu: 0 free, c the caller holding the write lock
    onChange,     \* Manager.onChange # nil
    nextConn,     \* next Connection object to allocate
    conn,         \* the Connection objects: fields of each
    worker,       \* the runPortForward goroutine of each Connection
    tunnel,       \* the ForwardPorts goroutine of each Connection
    call,         \* each caller's position in the manager method it runs
    stopAll,      \* the StopAll call of the shutdown path
    calls,        \* manager calls issued so far
    budget,       \* the run's workload: calls issued, Connections allocated
    stopMarked,   \* history: a StopPortForward call has set this record Stopped
    timedOut,     \* history: Start's timeout fired before ready or a worker error
    pending,      \* history: a change made with a subscriber attached has not
                  \* been followed by an invocation of the callback
    subscriber,   \* the onChange callback: "ok" returns, "stuck" does not
    session,      \* the saved session file: per id "none", "active", "inactive"
    ipc,          \* the daemon: one client connection of the IPC server, the
                  \* shutdown command's canceller, the daemon's root context
    host,         \* the machine: PID file, socket file, live processes
    disk,         \* the session state file and what was last loaded from it
    lookup,       \* one resolution of a service target: the cluster's answers
                  \* and what runPortForward made of them
    notify,       \* a goroutine inside notifyChange, between its two reads of
                  \* m.onChange
    saves         \* the saveState calls of the IPC handlers: what each has
                  \* projected and whether it has written it

vars == <<connections, mu, onChange, nextConn, conn, worker, tunnel, call,
          stopAll, calls, budget, stopMarked, timedOut, pending, subscriber,
          session, ipc, host, disk, lookup, notify, saves>>

\* The manager's state, and the state outside the manager.
manager == <<connections, mu, onChange, nextConn, conn, worker, tunnel, call,
             stopAll, calls, budget, stopMarked, timedOut, pending, subscriber,
             session>>
outside == <<ipc, host, disk, lookup, notify, saves>>
besideIpc == <<host, disk, lookup, notify, saves>>
besideHost == <<ipc, disk, lookup, notify, saves>>
besideDisk == <<ipc, host, lookup, notify, saves>>
besideLookup == <<ipc, host, disk, notify, saves>>
besideNotify == <<ipc, host, disk, lookup, saves>>
besideSaves == <<ipc, host, disk, lookup, notify>>

\* A Connection that was never allocated.  stopChan counts the close() calls
\* made on the channel; StoppedAt counts the writes of the timestamp (0: zero
\* time).
NilConn ==
    [ID |-> 0, Status |-> "none", Error |-> "", StoppedAt |-> 0,
     cancelFunc |-> FALSE, ctxDone |-> FALSE,
     stopOnce |-> FALSE, stopChan |-> 0, mu |-> "free"]

\* A caller outside any manager method (op, id, result: the method it called
\* last, on which identity, and what came back).  ctxDone: the context handed
\* to the startPortForward it runs is done; after: the error startPortForward
\* returns once the StopPortForward it issued is over.
IdleCall ==
    [pc |-> "idle", op |-> "", id |-> 0, conn |-> NoConn, ctxDone |-> FALSE,
     after |-> "", result |-> "none"]

\* No session file has been written by this run.
NoSession == [i \in Ids |-> "unsaved"]

\* No request line is being handled.
NoLine == [cmd |-> "none", id |-> 0]

\* The daemon after Server.Start, one client connected: log, the request
\* lines the client has written; read, how many of them handleConnection has
\* read; cur, the request its handler is working on; resp, the response the
\* handler returned and sendResponse has not written yet; out, the response
\* lines written; open, the connection is not closed; canceller, the goroutine
\* started by handleShutdown; root, d.ctx is cancelled; panic, a handler
\* panicked.
IpcIdle ==
    [log |-> <<>>, read |-> 0, cur |-> NoLine, resp |-> "none", out |-> <<>>,
     open |-> TRUE, canceller |-> "none", root |-> FALSE, panic |-> FALSE]

\* A machine on which no daemon has run: no PID file (0), no socket file, no
\* daemon process (0); procs, the live processes a signal can reach; check,
\* what the last IsDaemonRunning returned.
HostIdle ==
    [pidFile |-> 0, sock |-> "none", procs |-> {}, daemon |-> 0, check |-> "none"]

\* No state file yet: projected, what GetAllConnectionsForSave returned at the
\* last save; file, the YAML document of state.yaml; loaded, the Connections of
\* the last LoadState.
DiskIdle ==
    [projected |-> {}, file |-> [exists |-> FALSE, connections |-> <<>>],
     loaded |-> <<>>, phase |-> "none"]

\* No resolution has run: RemotePort, the declared port of the record; ports,
\* svc.Spec.Ports; selector, whether the service has one; listErr, whether the
\* pod listing failed; pods, pods.Items; err, podName and targetPort, the
\* outcome ("" is no error / no pod).
LookupIdle ==
    [phase |-> "none", RemotePort |-> 0, ports |-> <<>>, selector |-> FALSE,
     listErr |-> FALSE, pods |-> <<>>, err |-> "", podName |-> "",
     targetPort |-> 0]

\* No goroutine is inside notifyChange: pc, where it is; detached, whether
\* m.onChange had been set to nil when the callback was invoked.
NotifyIdle == [pc |-> "idle", detached |-> FALSE]

\* No handler is inside saveState: seq counts the projections taken, fileSeq
\* is the number of the projection the session file holds (0: none of a
\* handler); by[c] is handler c's call: not begun, its projection taken (snap,
\* the seq-th), or written.
SavesIdle ==
    [seq |-> 0, fileSeq |-> 0,
     by |-> [c \in Callers |-> [pc |-> "none", seq |-> 0, snap |-> NoSession]]]

\* The state after NewManager, with the budget of calls of the run.
InitWith(nCalls, nConns) ==
    /\ connections = [i \in Ids |-> NoConn]
    /\ mu = 0
    /\ onChange = TRUE
    /\ nextConn = 1
    /\ conn = [r \in Conns |-> NilConn]
    /\ worker = [r \in Conns |-> [pc |-> "none", ret |-> "empty"]]
    /\ tunnel = [r \in Conns |-> [pc |-> "none", readyChan |-> FALSE, errChan |-> "empty"]]
    /\ call = [c \in Callers |-> IdleCall]
    /\ stopAll = [pc |-> "idle", todo |-> {}, cur |-> NoConn, seen |-> {}]
    /\ calls = 0
    /\ budget = [calls |-> nCalls, conns |-> nConns]
    /\ stopMarked = [r \in Conns |-> FALSE]
    /\ timedOut = [r \in Conns |-> FALSE]
    /\ pending = FALSE
    /\ subscriber = "ok"
    /\ session = NoSession
    /\ ipc = IpcIdle
    /\ host = HostIdle
    /\ disk = DiskIdle
    /\ lookup = LookupIdle
    /\ notify = NotifyIdle
    /\ saves = SavesIdle

Init == InitWith(MaxCalls, MaxConns)

\* ---- helpers ------------------------------------------------------------
Allocated(r) == conn[r].Status # "none"
InRegistry(r) == \E i \in Ids : connections[i] = r

\* A panic that nothing recovers ends the process: the nil error dereferenced
\* by runPortForward (worker pc "panic"), a second close of a stopChan, or the
\* nil Connection dereferenced by an IPC handler, or a call of a nil onChange.
Crashed ==
    \/ \E r \in Conns : worker[r].pc = "panic" \/ conn[r].stopChan > 1
    \/ ipc.panic
    \/ notify.pc = "nil call"

\* Connection.mu can be taken (Lock, RLock, and the Lock inside AddLog).  Only
\* a worker keeps it across steps; every other section is over in one step.
MuFree(r) == conn[r].mu = "free"

\* A caller sits in startPortForward's select on this record's channels.
Awaited(r) == \E c \in Callers : call[c].pc = "start_wait" /\ call[c].conn = r

\* A caller goroutine may issue a manager call: it is idle, the run's budget of
\* calls is not used up, and (callers being interchangeable) every caller
\* before it is busy.
CanBegin(c) ==
    /\ call[c].pc = "idle"
    /\ calls < budget.calls
    /\ \A d \in Callers : d < c => call[d].pc # "idle"

\* The caller is back outside the manager with this result.
Returned(op, i, res) == [IdleCall EXCEPT !.op = op, !.id = i, !.result = res]

\* m.notifyChange(): if m.onChange != nil { m.onChange() }.  The call is
\* synchronous: it comes back when the callback does.
CallbackReturns == ~onChange \/ subscriber = "ok"

\* The caller or worker that called notifyChange sits in a callback that does
\* not return.
InCallback(k) == [k EXCEPT !.pc = "in_callback"]

\* pending after an operation that called notifyChange, and after a change
\* that no notifyChange has followed yet.
afterNotify == IF onChange THEN FALSE ELSE pending
afterChange == onChange \/ pending

\* A close of stopChan that is not guarded by the Once.
stopOnceDoUnguarded(done, closes) == closes + 1

\* stopOnce.Do(func() { close(conn.stopChan) }): the number of close() calls
\* executed on stopChan after the Do, given the Once's flag and the count so far.
stopOnceDo(done, closes) == IF done THEN closes ELSE closes + 1

\* The stop path shared by StopPortForward, StopAll and DeleteConnection once
\* the status is written: cancelFunc() if set, then stopOnce.Do(close(stopChan)).
cancelAndClose(k) ==
    [k EXCEPT !.ctxDone = k.ctxDone \/ k.cancelFunc,
              !.stopChan = stopOnceDo(k.stopOnce, k.stopChan),
              !.stopOnce = TRUE]

\* A duplicate check that forgets the Starting status.
startRejectsActiveOnly(st) == st = StatusActive

\* The duplicate check of startPortForward: the existing record rejects the Start.
startRejects(st) == st = StatusActive \/ st = StatusStarting

\* The Connection that startPortForward builds.
newConnection(i) ==
    [ID |-> i, Status |-> StatusStarting, Error |-> "", StoppedAt |-> 0,
     cancelFunc |-> TRUE, ctxDone |-> FALSE,
     stopOnce |-> FALSE, stopChan |-> 0, mu |-> "free"]

\* ---- startPortForward ---------------------------------------------------
\* The registry and the records after the critical section of startPortForward
\* found no live record under id i: the existing record (if any) has its
\* cancelFunc called and is deleted, the new Connection is inserted.
startInsert(i) ==
    LET existing == connections[i] IN
    [connections |-> [connections EXCEPT ![i] = nextConn],
     conn |-> IF existing = NoConn
              THEN [conn EXCEPT ![nextConn] = newConnection(i)]
              ELSE [conn EXCEPT ![existing].ctxDone = @ \/ conn[existing].cancelFunc,
                                ![nextConn] = newConnection(i)]]

\* A startPortForward that cancels the existing record before it looks at its
\* status.
StartRejectCancels(c, i) ==
    /\ ~Crashed
    /\ CanBegin(c)
    /\ mu = 0
    /\ connections[i] # NoConn
    /\ MuFree(connections[i])
    /\ startRejects(conn[connections[i]].Status)
    /\ calls' = calls + 1
    /\ conn' = [conn EXCEPT ![connections[i]].ctxDone = TRUE]
    /\ call' = [call EXCEPT ![c] = Returned("start", i, "AlreadyActive")]
    /\ UNCHANGED <<connections, mu, onChange, nextConn, worker, tunnel,
                   stopAll, budget, stopMarked, timedOut>>
    /\ UNCHANGED <<pending, subscriber, session>>
    /\ UNCHANGED outside

\* m.mu.Lock(); the duplicate check (existing.mu.RLock); m.mu.Unlock();
\* return "already active".
StartReject(c, i) ==
    /\ ~Crashed
    /\ CanBegin(c)
    /\ mu = 0
    /\ connections[i] # NoConn
    /\ MuFree(connections[i])
    /\ startRejects(conn[connections[i]].Status)
    /\ calls' = calls + 1
    /\ call' = [call EXCEPT ![c] = Returned("start", i, "AlreadyActive")]
    /\ UNCHANGED <<connections, mu, onChange, nextConn, conn, worker, tunnel,
                   stopAll, budget, stopMarked, timedOut>>
    /\ UNCHANGED <<pending, subscriber, session>>
    /\ UNCHANGED outside

\* A Start that keeps m.mu from the insertion until its select is over.
StartInsertHoldsLock(c, i) ==
    /\ ~Crashed
    /\ CanBegin(c)
    /\ nextConn <= budget.conns
    /\ mu = 0
    /\ connections[i] # NoConn => /\ MuFree(connections[i])
                                  /\ ~startRejects(conn[connections[i]].Status)
    /\ calls' = calls + 1
    /\ mu' = c
    /\ connections' = startInsert(i).connections
    /\ conn' = startInsert(i).conn
    /\ nextConn' = nextConn + 1
    /\ pending' = afterNotify
    /\ worker' = [worker EXCEPT ![nextConn].pc = "resolve"]
    /\ call' = [call EXCEPT ![c] = [IdleCall EXCEPT !.pc = "start_wait",
                                                    !.op = "start", !.id = i,
                                                    !.conn = nextConn]]
    /\ UNCHANGED <<onChange, tunnel, stopAll, budget, stopMarked, timedOut>>
    /\ UNCHANGED <<subscriber, session>>
    /\ UNCHANGED outside

\* m.mu.Lock(); no live record: cancel and delete the old one, insert the new
\* one; m.mu.Unlock(); m.notifyChange(); go runPortForward(connCtx, conn).
\* The caller is left at the select.
StartInsert(c, i) ==
    /\ ~Crashed
    /\ CanBegin(c)
    /\ nextConn <= budget.conns
    /\ mu = 0
    /\ connections[i] # NoConn => /\ MuFree(connections[i])
                                  /\ ~startRejects(conn[connections[i]].Status)
    /\ calls' = calls + 1
    /\ connections' = startInsert(i).connections
    /\ conn' = startInsert(i).conn
    /\ nextConn' = nextConn + 1
    /\ pending' = afterNotify
    /\ worker' = IF CallbackReturns
                 THEN [worker EXCEPT ![nextConn].pc = "resolve"]
                 ELSE worker
    /\ call' = [call EXCEPT ![c] = [IdleCall EXCEPT !.pc = IF CallbackReturns
                                                           THEN "start_wait"
                                                           ELSE "in_callback",
                                                    !.op = "start", !.id = i,
                                                    !.conn = nextConn]]
    /\ UNCHANGED <<mu, onChange, tunnel, stopAll, budget, stopMarked,
                   timedOut>>
    /\ UNCHANGED <<subscriber, session>>
    /\ UNCHANGED outside

\* A manager method that takes m.mu and then needs the mu of a record whose
\* worker holds it for good: the caller blocks inside its critical section,
\* m.mu held (startPortForward, RemoveConnection, DeleteConnection).
BlockedHoldingMu(c, i) ==
    /\ ~Crashed
    /\ CanBegin(c)
    /\ mu = 0
    /\ connections[i] # NoConn
    /\ ~MuFree(connections[i])
    /\ calls' = calls + 1
    /\ mu' = c
    /\ call' = [call EXCEPT ![c] = [IdleCall EXCEPT !.pc = "blocked",
                                                    !.op = "locked", !.id = i,
                                                    !.conn = connections[i]]]
    /\ UNCHANGED <<connections, onChange, nextConn, conn, worker, tunnel,
                   stopAll, budget, stopMarked, timedOut>>
    /\ UNCHANGED <<pending, subscriber, session>>
    /\ UNCHANGED outside

\* The worker's errChan once the caller has left the select by another case:
\* a value nobody will receive.
abandon(w) == IF w.ret \in {"err", "nil"} THEN [w EXCEPT !.ret = "dropped"] ELSE w

\* select case <-conn.readyChan: conn.AddLog(...); return conn, nil
StartReady(c) ==
    /\ ~Crashed
    /\ call[c].pc = "start_wait"
    /\ tunnel[call[c].conn].readyChan
    /\ MuFree(call[c].conn)
    /\ call' = [call EXCEPT ![c] = Returned("start", call[c].id, "conn")]
    /\ worker' = [worker EXCEPT ![call[c].conn] = abandon(@)]
    /\ UNCHANGED <<connections, mu, onChange, nextConn, conn, tunnel, stopAll,
                   calls, budget, stopMarked, timedOut>>
    /\ UNCHANGED <<pending, subscriber, session>>
    /\ UNCHANGED outside

\* select case err := <-errChan: return nil, err  (nil, nil when the worker
\* returned nil)
StartWorkerErr(c) ==
    /\ ~Crashed
    /\ call[c].pc = "start_wait"
    /\ worker[call[c].conn].ret \in {"err", "nil"}
    /\ call' = [call EXCEPT ![c] = Returned("start", call[c].id,
                                            IF worker[call[c].conn].ret = "err"
                                            THEN "err" ELSE "nilnil")]
    /\ worker' = [worker EXCEPT ![call[c].conn].ret = "dropped"]
    /\ UNCHANGED <<connections, mu, onChange, nextConn, conn, tunnel, stopAll,
                   calls, budget, stopMarked, timedOut>>
    /\ UNCHANGED <<pending, subscriber, session>>
    /\ UNCHANGED outside

\* select case <-time.After(30 * time.Second): conn.AddLog("Timeout");
\* m.StopPortForward(id); return nil, timeout
StartTimeout(c) ==
    /\ ~Crashed
    /\ call[c].pc = "start_wait"
    /\ MuFree(call[c].conn)
    /\ call' = [call EXCEPT ![c].pc = "stop_lookup", ![c].after = "Timeout"]
    /\ worker' = [worker EXCEPT ![call[c].conn] = abandon(@)]
    /\ timedOut' = [timedOut EXCEPT ![call[c].conn] =
                       @ \/ (~tunnel[call[c].conn].readyChan
                             /\ worker[call[c].conn].ret = "empty")]
    /\ UNCHANGED <<connections, mu, onChange, nextConn, conn, tunnel, stopAll,
                   calls, budget, stopMarked>>
    /\ UNCHANGED <<pending, subscriber, session>>
    /\ UNCHANGED outside

\* select case <-ctx.Done(): m.StopPortForward(id); return nil, ctx.Err()
StartCtxDone(c) ==
    /\ ~Crashed
    /\ call[c].pc = "start_wait"
    /\ call[c].ctxDone
    /\ call' = [call EXCEPT ![c].pc = "stop_lookup", ![c].after = "ctxErr"]
    /\ worker' = [worker EXCEPT ![call[c].conn] = abandon(@)]
    /\ UNCHANGED <<connections, mu, onChange, nextConn, conn, tunnel, stopAll,
                   calls, budget, stopMarked, timedOut>>
    /\ UNCHANGED <<pending, subscriber, session>>
    /\ UNCHANGED outside

\* The context handed to startPortForward is cancelled (the caller's timeout,
\* its deferred cancel, the process-wide shutdown): connCtx, its child, is done
\* with it, and so is the ctx of the select if the call is still there.
ParentCancel(r) ==
    /\ ~Crashed
    /\ conn[r].cancelFunc
    /\ ~conn[r].ctxDone \/ \E c \in Callers : /\ call[c].pc = "start_wait"
                                              /\ call[c].conn = r
                                              /\ ~call[c].ctxDone
    /\ conn' = [conn EXCEPT ![r].ctxDone = TRUE]
    /\ call' = [c \in Callers |->
                  IF call[c].pc = "start_wait" /\ call[c].conn = r
                  THEN [call[c] EXCEPT !.ctxDone = TRUE] ELSE call[c]]
    /\ UNCHANGED <<connections, mu, onChange, nextConn, worker, tunnel,
                   stopAll, calls, budget, stopMarked, timedOut>>
    /\ UNCHANGED <<pending, subscriber, session>>
    /\ UNCHANGED outside

\* ---- StopPortForward ----------------------------------------------------
\* What the call returns to: its own caller, or the select case of
\* startPortForward that issued the stop and returns its own error.
stopReturn(k, i, res) ==
    IF k.after = "" THEN Returned("stop", i, res) ELSE Returned("start", i, k.after)

\* m.mu.RLock(); conn, ok := m.connections[id]; m.mu.RUnlock(); not found:
\* return an error
StopLookup(c, i) ==
    /\ ~Crashed
    /\ \/ CanBegin(c) /\ calls' = calls + 1
       \/ call[c].pc = "stop_lookup" /\ call[c].id = i /\ calls' = calls
    /\ mu = 0
    /\ call' = [call EXCEPT ![c] =
                 IF connections[i] = NoConn
                 THEN stopReturn(@, i, "NotFound")
                 ELSE [IdleCall EXCEPT !.pc = "stop_mark", !.id = i,
                                       !.op = IF call[c].after = "" THEN "stop"
                                              ELSE "start",
                                       !.conn = connections[i],
                                       !.after = call[c].after]]
    /\ UNCHANGED <<connections, mu, onChange, nextConn, conn, worker, tunnel,
                   stopAll, budget, stopMarked, timedOut>>
    /\ UNCHANGED <<pending, subscriber, session>>
    /\ UNCHANGED outside

\* The status test of StopPortForward: the call returns without writing.
stopSkips(st) == st = StatusStopped

\* conn.mu.Lock(); already Stopped: return nil; else Status = Stopped,
\* StoppedAt = now; conn.mu.Unlock()
StopMark(c) ==
    /\ ~Crashed
    /\ call[c].pc = "stop_mark"
    /\ LET r == call[c].conn IN
        /\ MuFree(r)
        /\ IF stopSkips(conn[r].Status)
           THEN /\ call' = [call EXCEPT ![c] = stopReturn(@, call[c].id, "ok")]
                /\ UNCHANGED <<conn, stopMarked, pending>>
           ELSE /\ conn' = [conn EXCEPT ![r].Status = StatusStopped,
                                        ![r].StoppedAt = @ + 1]
                /\ stopMarked' = [stopMarked EXCEPT ![r] = TRUE]
                /\ pending' = afterChange
                /\ call' = [call EXCEPT ![c].pc = "stop_signal"]
    /\ UNCHANGED <<connections, mu, onChange, nextConn, worker, tunnel,
                   stopAll, calls, budget, timedOut>>
    /\ UNCHANGED <<subscriber, session>>
    /\ UNCHANGED outside

\* conn.cancelFunc(); conn.stopOnce.Do(close(conn.stopChan)); m.notifyChange();
\* return nil
StopSignal(c) ==
    /\ ~Crashed
    /\ call[c].pc = "stop_signal"
    /\ conn' = [conn EXCEPT ![call[c].conn] = cancelAndClose(@)]
    /\ pending' = afterNotify
    /\ call' = [call EXCEPT ![c] = IF CallbackReturns
                                   THEN stopReturn(@, call[c].id, "ok")
                                   ELSE InCallback(@)]
    /\ UNCHANGED <<connections, mu, onChange, nextConn, worker, tunnel,
                   stopAll, calls, budget, stopMarked, timedOut>>
    /\ UNCHANGED <<subscriber, session>>
    /\ UNCHANGED outside

\* ---- RemoveConnection ---------------------------------------------------
\* The status test of RemoveConnection: the record may not be removed.
removeRejects(st) == st = StatusActive \/ st = StatusStarting

\* m.mu.Lock(); lookup; conn.mu.RLock() status; live: "cannot remove active
\* connection"; else delete(m.connections, id); m.notifyChange(); return nil
RemoveConnection(c, i) ==
    /\ ~Crashed
    /\ CanBegin(c)
    /\ mu = 0
    /\ connections[i] # NoConn => MuFree(connections[i])
    /\ calls' = calls + 1
    /\ LET r == connections[i]
           res == IF r = NoConn THEN "NotFound"
                  ELSE IF removeRejects(conn[r].Status) THEN "CannotRemoveActive"
                  ELSE "ok"
       IN  /\ connections' = IF res = "ok" THEN [connections EXCEPT ![i] = NoConn]
                             ELSE connections
           /\ pending' = IF res = "ok" THEN afterNotify ELSE pending
           /\ IF res = "ok" /\ ~CallbackReturns
              THEN /\ mu' = c
                   /\ call' = [call EXCEPT ![c] =
                                 InCallback(Returned("remove", i, "none"))]
              ELSE /\ mu' = mu
                   /\ call' = [call EXCEPT ![c] = Returned("remove", i, res)]
    /\ UNCHANGED <<onChange, nextConn, conn, worker, tunnel, stopAll,
                   budget, stopMarked, timedOut>>
    /\ UNCHANGED <<subscriber, session>>
    /\ UNCHANGED outside

\* ---- DeleteConnection (the UI's delete key and the daemon's handleRemove) --
\* A DeleteConnection that marks a live record Stopped and signals nobody.
deleteStopsNoSignal(k) ==
    IF k.Status = StatusActive \/ k.Status = StatusStarting
    THEN [k EXCEPT !.Status = StatusStopped, !.StoppedAt = @ + 1]
    ELSE k

\* The record as DeleteConnection leaves it: a live one is set Stopped and
\* stamped, then cancelFunc and the stopOnce close run whatever the status.
deleteStops(k) ==
    cancelAndClose(IF k.Status = StatusActive \/ k.Status = StatusStarting
                   THEN [k EXCEPT !.Status = StatusStopped, !.StoppedAt = @ + 1]
                   ELSE k)

\* m.mu.Lock(); lookup; conn.mu.Lock(); stop if running; cancel; close once;
\* delete(m.connections, id); return nil
DeleteConnection(c, i) ==
    /\ ~Crashed
    /\ CanBegin(c)
    /\ mu = 0
    /\ connections[i] # NoConn => MuFree(connections[i])
    /\ calls' = calls + 1
    /\ LET r == connections[i] IN
        /\ conn' = IF r = NoConn THEN conn ELSE [conn EXCEPT ![r] = deleteStops(@)]
        /\ connections' = [connections EXCEPT ![i] = NoConn]
        /\ pending' = IF r = NoConn THEN pending ELSE afterChange
        /\ call' = [call EXCEPT ![c] = Returned("delete", i,
                                                 IF r = NoConn THEN "NotFound"
                                                 ELSE "ok")]
    /\ UNCHANGED <<mu, onChange, nextConn, worker, tunnel, stopAll, budget,
                   stopMarked, timedOut>>
    /\ UNCHANGED <<subscriber, session>>
    /\ UNCHANGED outside

\* ---- AddStoppedConnection and the session restore ---------------------------
\* A placeholder built with a cancellation handle.
newPlaceholderWithCancel(i) ==
    [ID |-> i, Status |-> StatusStopped, Error |-> "", StoppedAt |-> 1,
     cancelFunc |-> TRUE, ctxDone |-> FALSE,
     stopOnce |-> FALSE, stopChan |-> 0, mu |-> "free"]

\* The Connection that AddStoppedConnection builds: Stopped, stamped, with no
\* cancelFunc and no worker.
newPlaceholder(i) ==
    [ID |-> i, Status |-> StatusStopped, Error |-> "", StoppedAt |-> 1,
     cancelFunc |-> FALSE, ctxDone |-> FALSE,
     stopOnce |-> FALSE, stopChan |-> 0, mu |-> "free"]

\* An AddStoppedConnection that does not look for an existing record.
addStoppedOverwrites(i) ==
    [connections |-> [connections EXCEPT ![i] = nextConn],
     conn |-> [conn EXCEPT ![nextConn] = newPlaceholder(i)],
     nextConn |-> nextConn + 1]

\* The registry after AddStoppedConnection: nothing changes if the id has a
\* record, else the placeholder is inserted.
addStopped(i) ==
    IF connections[i] # NoConn
    THEN [connections |-> connections, conn |-> conn, nextConn |-> nextConn]
    ELSE [connections |-> [connections EXCEPT ![i] = nextConn],
          conn |-> [conn EXCEPT ![nextConn] = newPlaceholder(i)],
          nextConn |-> nextConn + 1]

\* The restore loop on a saved entry with WasActive false, or (the UI) whose
\* target is not available: m.mu.Lock(); AddStoppedConnection; m.mu.Unlock().
\* No notifyChange follows.
AddStoppedConnection(c, i) ==
    /\ ~Crashed
    /\ CanBegin(c)
    /\ mu = 0
    /\ connections[i] = NoConn => nextConn <= budget.conns
    /\ calls' = calls + 1
    /\ connections' = addStopped(i).connections
    /\ conn' = addStopped(i).conn
    /\ nextConn' = addStopped(i).nextConn
    /\ pending' = IF connections[i] = NoConn THEN afterChange ELSE pending
    /\ call' = [call EXCEPT ![c] = Returned("add", i, "ok")]
    /\ UNCHANGED <<mu, onChange, worker, tunnel, stopAll, budget, stopMarked,
                   timedOut>>
    /\ UNCHANGED <<subscriber, session>>
    /\ UNCHANGED outside

\* The Start of a saved entry came back with err != nil.
restoreFailed(res) == res \in {"err", "Timeout", "ctxErr", "AlreadyActive"}

\* The restore loop after the Start of a saved entry with WasActive true has
\* failed: AddStoppedConnection for the same entry, then on to the next entry.
RestoreFailed(c) ==
    /\ ~Crashed
    /\ call[c].pc = "idle"
    /\ call[c].op = "start"
    /\ restoreFailed(call[c].result)
    /\ mu = 0
    /\ connections[call[c].id] = NoConn => nextConn <= budget.conns
    /\ connections' = addStopped(call[c].id).connections
    /\ conn' = addStopped(call[c].id).conn
    /\ nextConn' = addStopped(call[c].id).nextConn
    /\ pending' = IF connections[call[c].id] = NoConn THEN afterChange ELSE pending
    /\ call' = [call EXCEPT ![c] = Returned("restore", call[c].id, "ok")]
    /\ UNCHANGED <<mu, onChange, worker, tunnel, stopAll, calls, budget,
                   stopMarked, timedOut>>
    /\ UNCHANGED <<subscriber, session>>
    /\ UNCHANGED outside

\* ---- saving the session, StopAll ------------------------------------------
\* A WasActive that is set for every record that is not Stopped.
wasActiveUnlessStopped(k) ==
    IF k.Status = StatusStopped THEN "inactive" ELSE "active"

\* WasActive of the SavedConnectionInfo built for a record.
wasActive(k) == IF k.Status = StatusActive THEN "active" ELSE "inactive"

\* The session file written from GetAllConnectionsForSave: one entry per
\* record of the registry.
savedSession ==
    [i \in Ids |-> IF connections[i] = NoConn THEN "none"
                   ELSE wasActive(conn[connections[i]])]

\* A shutdown that saves the session once StopAll is over.
SaveStateLate ==
    /\ ~Crashed
    /\ stopAll.pc = "done"
    /\ session = NoSession
    /\ mu = 0
    /\ \A i \in Ids : connections[i] # NoConn => MuFree(connections[i])
    /\ session' = savedSession
    /\ UNCHANGED <<connections, mu, onChange, nextConn, conn, worker, tunnel,
                   call, stopAll, calls, budget, stopMarked, timedOut>>
    /\ UNCHANGED <<pending, subscriber>>
    /\ UNCHANGED outside

\* The first statement of a shutdown that persists the session (the daemon's
\* shutdown, the UI's quit key): saveState / saveSessionState, i.e.
\* GetAllConnectionsForSave under m.mu.RLock and each conn.mu.RLock, then
\* state.Save().  StopAll is the next statement.
SaveState ==
    /\ ~Crashed
    /\ stopAll.pc = "idle"
    /\ mu = 0
    /\ \A i \in Ids : connections[i] # NoConn => MuFree(connections[i])
    /\ session' = savedSession
    /\ stopAll' = [stopAll EXCEPT !.pc = "saved"]
    /\ UNCHANGED <<connections, mu, onChange, nextConn, conn, worker, tunnel,
                   call, calls, budget, stopMarked, timedOut>>
    /\ UNCHANGED <<pending, subscriber>>
    /\ UNCHANGED outside

\* A StopAll that starts without clearing the callback.
StopAllDetachKeeps ==
    /\ ~Crashed
    /\ stopAll.pc \in {"idle", "saved"}
    /\ mu = 0
    /\ stopAll' = [stopAll EXCEPT !.pc = "snapshot"]
    /\ UNCHANGED <<connections, mu, onChange, nextConn, conn, worker, tunnel,
                   call, calls, budget, stopMarked, timedOut>>
    /\ UNCHANGED <<pending, subscriber, session>>
    /\ UNCHANGED outside

\* m.mu.Lock(); m.onChange = nil; m.mu.Unlock()
StopAllDetach ==
    /\ ~Crashed
    /\ stopAll.pc \in {"idle", "saved"}
    /\ mu = 0
    /\ onChange' = FALSE
    /\ stopAll' = [stopAll EXCEPT !.pc = "snapshot"]
    /\ UNCHANGED <<connections, mu, nextConn, conn, worker, tunnel, call,
                   calls, budget, stopMarked, timedOut>>
    /\ UNCHANGED <<pending, subscriber, session>>
    /\ UNCHANGED outside

\* m.mu.RLock(); copy the map's values; m.mu.RUnlock()
StopAllSnapshot ==
    /\ ~Crashed
    /\ stopAll.pc = "snapshot"
    /\ mu = 0
    /\ stopAll' = [stopAll EXCEPT !.pc = "loop",
                                  !.todo = {connections[i] : i \in Ids} \ {NoConn},
                                  !.seen = {connections[i] : i \in Ids} \ {NoConn}]
    /\ UNCHANGED <<connections, mu, onChange, nextConn, conn, worker, tunnel,
                   call, calls, budget, stopMarked, timedOut>>
    /\ UNCHANGED <<pending, subscriber, session>>
    /\ UNCHANGED outside

\* The status write of StopAll's loop body.
stopAllMark(k) ==
    IF k.Status # StatusStopped
    THEN [k EXCEPT !.Status = StatusStopped, !.StoppedAt = @ + 1]
    ELSE k

\* for _, conn := range connections (the map's order is arbitrary):
\* conn.mu.Lock(); if Status != Stopped { Status = Stopped; StoppedAt = now };
\* conn.mu.Unlock()
StopAllMark ==
    /\ ~Crashed
    /\ stopAll.pc = "loop"
    /\ \E r \in stopAll.todo :
        /\ MuFree(r)
        /\ conn' = [conn EXCEPT ![r] = stopAllMark(@)]
        /\ stopAll' = [stopAll EXCEPT !.pc = "signal", !.cur = r, !.todo = @ \ {r}]
    /\ UNCHANGED <<connections, mu, onChange, nextConn, worker, tunnel, call,
                   calls, budget, stopMarked, timedOut>>
    /\ UNCHANGED <<pending, subscriber, session>>
    /\ UNCHANGED outside

\* The loop reaches a record whose worker holds conn.mu for good: conn.mu.Lock()
\* does not return.
StopAllBlocked ==
    /\ ~Crashed
    /\ stopAll.pc = "loop"
    /\ \E r \in stopAll.todo :
        /\ ~MuFree(r)
        /\ stopAll' = [stopAll EXCEPT !.pc = "blocked", !.cur = r, !.todo = @ \ {r}]
    /\ UNCHANGED <<connections, mu, onChange, nextConn, conn, worker, tunnel,
                   call, calls, budget, stopMarked, timedOut>>
    /\ UNCHANGED <<pending, subscriber, session>>
    /\ UNCHANGED outside

\* conn.cancelFunc(); conn.stopOnce.Do(close(conn.stopChan))
StopAllSignal ==
    /\ ~Crashed
    /\ stopAll.pc = "signal"
    /\ conn' = [conn EXCEPT ![stopAll.cur] = cancelAndClose(@)]
    /\ stopAll' = [stopAll EXCEPT !.pc = "loop", !.cur = NoConn]
    /\ UNCHANGED <<connections, mu, onChange, nextConn, worker, tunnel, call,
                   calls, budget, stopMarked, timedOut>>
    /\ UNCHANGED <<pending, subscriber, session>>
    /\ UNCHANGED outside

\* The loop is over: wg.Wait() behind the 100 ms sleeps, or the 2 s timer.
StopAllReturn ==
    /\ ~Crashed
    /\ stopAll.pc = "loop"
    /\ stopAll.todo = {}
    /\ stopAll' = [stopAll EXCEPT !.pc = "done"]
    /\ UNCHANGED <<connections, mu, onChange, nextConn, conn, worker, tunnel,
                   call, calls, budget, stopMarked, timedOut>>
    /\ UNCHANGED <<pending, subscriber, session>>
    /\ UNCHANGED outside

\* ---- runPortForward (the worker goroutine) --------------------------------
\* return v: the value goes to startPortForward's errChan (buffered), where it
\* is received only while the caller is still in the select.
workerReturn(r, v) == [pc |-> "done", ret |-> IF Awaited(r) THEN v ELSE "dropped"]

\* m.notifyChange(); return v: the return is reached when the callback returns.
workerNotifyReturn(r, v) ==
    IF CallbackReturns THEN workerReturn(r, v)
    ELSE [pc |-> "in_callback", ret |-> "empty"]

\* A worker that records the resolution failure and resolves again.
WorkerResolveFailRetries(r) ==
    /\ ~Crashed
    /\ worker[r].pc = "resolve"
    /\ MuFree(r)
    /\ conn[r].Status # StatusError
    /\ conn' = [conn EXCEPT ![r].Status = StatusError, ![r].Error = "resolve"]
    /\ pending' = afterNotify
    /\ UNCHANGED <<connections, mu, onChange, nextConn, worker, tunnel, call,
                   stopAll, calls, budget, stopMarked, timedOut>>
    /\ UNCHANGED <<subscriber, session>>
    /\ UNCHANGED outside

\* Endpoint resolution and forwarder construction fail (an inventory call that
\* returns an error, as it does once ctx is cancelled; no selector; no running
\* pod; SPDY or forwarder setup): Status = Error, Error = message, return err.
\* These paths write no StoppedAt.
WorkerResolveFail(r) ==
    /\ ~Crashed
    /\ worker[r].pc = "resolve"
    /\ MuFree(r)
    /\ conn' = [conn EXCEPT ![r].Status = StatusError, ![r].Error = "resolve"]
    /\ pending' = afterNotify
    /\ worker' = [worker EXCEPT ![r] = workerNotifyReturn(r, "err")]
    /\ UNCHANGED <<connections, mu, onChange, nextConn, tunnel, call, stopAll,
                   calls, budget, stopMarked, timedOut>>
    /\ UNCHANGED <<subscriber, session>>
    /\ UNCHANGED outside

\* Resolution succeeds: go func() { errChan <- fw.ForwardPorts() }(), then the
\* first select.
WorkerResolveOk(r) ==
    /\ ~Crashed
    /\ worker[r].pc = "resolve"
    /\ MuFree(r)
    /\ worker' = [worker EXCEPT ![r].pc = "startup"]
    /\ tunnel' = [tunnel EXCEPT ![r].pc = "dialing"]
    /\ UNCHANGED <<connections, mu, onChange, nextConn, conn, call, stopAll,
                   calls, budget, stopMarked, timedOut>>
    /\ UNCHANGED <<pending, subscriber, session>>
    /\ UNCHANGED outside

\* first select, case <-conn.readyChan: Status = Active (whatever it was)
WorkerReady(r) ==
    /\ ~Crashed
    /\ worker[r].pc = "startup"
    /\ tunnel[r].readyChan
    /\ MuFree(r)
    /\ conn' = [conn EXCEPT ![r].Status = StatusActive]
    /\ pending' = afterNotify
    /\ worker' = [worker EXCEPT ![r].pc = IF CallbackReturns THEN "active"
                                          ELSE "in_callback"]
    /\ UNCHANGED <<connections, mu, onChange, nextConn, tunnel, call, stopAll,
                   calls, budget, stopMarked, timedOut>>
    /\ UNCHANGED <<subscriber, session>>
    /\ UNCHANGED outside

\* first select, case err := <-errChan: Status = Error; Error = err.Error();
\* StoppedAt = now; return err.  A nil err (ForwardPorts ended by the stop
\* signal) makes err.Error() panic after Status was written, the lock held.
WorkerStartupErr(r) ==
    /\ ~Crashed
    /\ worker[r].pc = "startup"
    /\ tunnel[r].errChan \in {"err", "nil"}
    /\ MuFree(r)
    /\ tunnel' = [tunnel EXCEPT ![r].errChan = "dropped"]
    /\ IF tunnel[r].errChan = "err"
       THEN /\ conn' = [conn EXCEPT ![r].Status = StatusError, ![r].Error = "forward",
                                    ![r].StoppedAt = @ + 1]
            /\ pending' = afterNotify
            /\ worker' = [worker EXCEPT ![r] = workerNotifyReturn(r, "err")]
       ELSE /\ conn' = [conn EXCEPT ![r].Status = StatusError, ![r].mu = "worker"]
            /\ pending' = afterChange
            /\ worker' = [worker EXCEPT ![r].pc = "panic"]
    /\ UNCHANGED <<connections, mu, onChange, nextConn, call, stopAll, calls,
                   budget, stopMarked, timedOut>>
    /\ UNCHANGED <<subscriber, session>>
    /\ UNCHANGED outside

\* first select, case <-conn.stopChan: return nil
WorkerStartupStop(r) ==
    /\ ~Crashed
    /\ worker[r].pc = "startup"
    /\ conn[r].stopChan > 0
    /\ MuFree(r)
    /\ worker' = [worker EXCEPT ![r] = workerReturn(r, "nil")]
    /\ UNCHANGED <<connections, mu, onChange, nextConn, conn, tunnel, call,
                   stopAll, calls, budget, stopMarked, timedOut>>
    /\ UNCHANGED <<pending, subscriber, session>>
    /\ UNCHANGED outside

\* first select, case <-ctx.Done(): return ctx.Err()
WorkerStartupCtx(r) ==
    /\ ~Crashed
    /\ worker[r].pc = "startup"
    /\ conn[r].ctxDone
    /\ MuFree(r)
    /\ worker' = [worker EXCEPT ![r] = workerReturn(r, "err")]
    /\ UNCHANGED <<connections, mu, onChange, nextConn, conn, tunnel, call,
                   stopAll, calls, budget, stopMarked, timedOut>>
    /\ UNCHANGED <<pending, subscriber, session>>
    /\ UNCHANGED outside

\* The record after the second select's errChan case has taken conn.mu and
\* written the status: nothing if it is Stopped, else Error with the message
\* (err != nil) or Stopped (err == nil).  mu is "worker" where the branch goes
\* on to conn.AddLog, which locks conn.mu again.
tunnelEnded(k, e) ==
    IF k.Status = StatusStopped THEN k
    ELSE IF e = "err"
         THEN [k EXCEPT !.Status = StatusError, !.Error = "forward", !.mu = "worker"]
         ELSE [k EXCEPT !.Status = StatusStopped, !.mu = "worker"]

\* second select, case err = <-errChan.  With the status already Stopped the
\* worker unlocks, notifies and returns err.  Otherwise it calls conn.AddLog
\* with conn.mu held: sync.RWMutex is not reentrant, the Lock inside AddLog
\* never returns, and the lines after it (StoppedAt = now, Unlock, return) are
\* never reached.
WorkerTunnelEnded(r) ==
    /\ ~Crashed
    /\ worker[r].pc = "active"
    /\ tunnel[r].errChan \in {"err", "nil"}
    /\ MuFree(r)
    /\ tunnel' = [tunnel EXCEPT ![r].errChan = "dropped"]
    /\ conn' = [conn EXCEPT ![r] = tunnelEnded(@, tunnel[r].errChan)]
    /\ IF tunnelEnded(conn[r], tunnel[r].errChan).mu = "worker"
       THEN /\ worker' = [worker EXCEPT ![r] = [pc |-> "addlog", ret |-> "empty"]]
            /\ pending' = afterChange
       ELSE /\ worker' = [worker EXCEPT ![r] =
                            workerNotifyReturn(r, tunnel[r].errChan)]
            /\ pending' = afterNotify
    /\ UNCHANGED <<connections, mu, onChange, nextConn, call, stopAll, calls,
                   budget, stopMarked, timedOut>>
    /\ UNCHANGED <<subscriber, session>>
    /\ UNCHANGED outside

\* second select, case <-conn.stopChan: if Status != Stopped { Status =
\* Stopped; StoppedAt = now }; return nil
WorkerStopSignal(r) ==
    /\ ~Crashed
    /\ worker[r].pc = "active"
    /\ conn[r].stopChan > 0
    /\ MuFree(r)
    /\ conn' = [conn EXCEPT ![r] =
                  IF @.Status # StatusStopped
                  THEN [@ EXCEPT !.Status = StatusStopped, !.StoppedAt = @ + 1]
                  ELSE @]
    /\ pending' = afterNotify
    /\ worker' = [worker EXCEPT ![r] = workerNotifyReturn(r, "nil")]
    /\ UNCHANGED <<connections, mu, onChange, nextConn, tunnel, call, stopAll,
                   calls, budget, stopMarked, timedOut>>
    /\ UNCHANGED <<subscriber, session>>
    /\ UNCHANGED outside

\* second select, case <-ctx.Done(): return nil
WorkerCtxDone(r) ==
    /\ ~Crashed
    /\ worker[r].pc = "active"
    /\ conn[r].ctxDone
    /\ MuFree(r)
    /\ worker' = [worker EXCEPT ![r] = workerReturn(r, "nil")]
    /\ UNCHANGED <<connections, mu, onChange, nextConn, conn, tunnel, call,
                   stopAll, calls, budget, stopMarked, timedOut>>
    /\ UNCHANGED <<pending, subscriber, session>>
    /\ UNCHANGED outside

\* ---- the tunnel primitive (fw.ForwardPorts in its goroutine) --------------
\* errChan <- err: received only by a worker still in one of its selects.
tunnelSend(r, v) == IF worker[r].pc \in {"startup", "active"} THEN v ELSE "dropped"

\* The dial succeeded and the listener is up: close(readyChan).
TunnelReady(r) ==
    /\ ~Crashed
    /\ tunnel[r].pc = "dialing"
    /\ tunnel' = [tunnel EXCEPT ![r].pc = "ready", ![r].readyChan = TRUE]
    /\ UNCHANGED <<connections, mu, onChange, nextConn, conn, worker, call,
                   stopAll, calls, budget, stopMarked, timedOut>>
    /\ UNCHANGED <<pending, subscriber, session>>
    /\ UNCHANGED outside

\* ForwardPorts returns an error: the dial failed, or the connection was lost.
TunnelFail(r) ==
    /\ ~Crashed
    /\ tunnel[r].pc \in {"dialing", "ready"}
    /\ tunnel' = [tunnel EXCEPT ![r].pc = "exited", ![r].errChan = tunnelSend(r, "err")]
    /\ UNCHANGED <<connections, mu, onChange, nextConn, conn, worker, call,
                   stopAll, calls, budget, stopMarked, timedOut>>
    /\ UNCHANGED <<pending, subscriber, session>>
    /\ UNCHANGED outside

\* ForwardPorts sees stopChan closed and returns nil.
TunnelStopped(r) ==
    /\ ~Crashed
    /\ tunnel[r].pc = "ready"
    /\ conn[r].stopChan > 0
    /\ tunnel' = [tunnel EXCEPT ![r].pc = "exited", ![r].errChan = tunnelSend(r, "nil")]
    /\ UNCHANGED <<connections, mu, onChange, nextConn, conn, worker, call,
                   stopAll, calls, budget, stopMarked, timedOut>>
    /\ UNCHANGED <<pending, subscriber, session>>
    /\ UNCHANGED outside

\* ---- the subscriber --------------------------------------------------------
\* The callback installed by ui.Run is p.Send(connectionsUpdated{}): it hands
\* the message to the program's event loop and returns when the loop has taken
\* it.  From some moment on the loop takes no more messages (it has quit, or
\* it is itself inside the manager call that notifies).
SubscriberStalls ==
    /\ ~Crashed
    /\ onChange
    /\ subscriber = "ok"
    /\ subscriber' = "stuck"
    /\ UNCHANGED <<connections, mu, onChange, nextConn, conn, worker, tunnel,
                   call, stopAll, calls, budget, stopMarked, timedOut>>
    /\ UNCHANGED <<pending, session>>
    /\ UNCHANGED outside

\* ---- the daemon: IPC server and shutdown --------------------------------
\* The goroutine of handleConnection calls the manager as caller IpcCaller;
\* the other callers are the handlers of other client connections.
IpcCaller == 1

\* Request lines: a line that is not JSON, a command HandleCommand does not
\* know, and the six commands (add, stop and remove carry an identity).
Lines ==
    [cmd : {"malformed", "unknown", "list", "status", "shutdown"}, id : {0}]
    \cup [cmd : {"add", "stop", "remove"}, id : Ids]

ManagerCmds == {"add", "stop", "remove"}

\* Client side: one more request line is written to the connection (a client
\* may write the next line before it has read the previous response).
ClientSend(l) ==
    /\ ~Crashed
    /\ ipc.open
    /\ Len(ipc.log) < MaxRequests
    /\ ipc' = [ipc EXCEPT !.log = Append(@, l)]
    /\ UNCHANGED <<connections, mu, onChange, nextConn, conn, worker, tunnel,
                   call, stopAll, calls, budget, stopMarked, timedOut>>
    /\ UNCHANGED <<pending, subscriber, session>>
    /\ UNCHANGED besideIpc

\* The response of the handlers that do not call the manager.
plainResponse(cmd) ==
    IF cmd = "malformed" THEN "invalid request format"
    ELSE IF cmd = "unknown" THEN "unknown command"
    ELSE "ok"

\* handleConnection reads the next line; json.Unmarshal fails (invalid request
\* format), or HandleCommand runs a handler that returns at once: the default
\* case (unknown command), or handleShutdown, which starts the goroutine that
\* sleeps 100 ms and then calls d.cancel().
IpcRead ==
    /\ ~Crashed
    /\ ipc.open
    /\ ipc.cur = NoLine
    /\ ipc.read < Len(ipc.log)
    /\ LET l == ipc.log[ipc.read + 1] IN
        /\ l.cmd \in {"malformed", "unknown", "shutdown"}
        /\ ipc' = [ipc EXCEPT !.read = @ + 1, !.cur = l,
                              !.resp = plainResponse(l.cmd),
                              !.canceller = IF l.cmd = "shutdown" /\ @ = "none"
                                            THEN "sleeping" ELSE @]
    /\ UNCHANGED <<connections, mu, onChange, nextConn, conn, worker, tunnel,
                   call, stopAll, calls, budget, stopMarked, timedOut>>
    /\ UNCHANGED <<pending, subscriber, session>>
    /\ UNCHANGED besideIpc

\* handleList / handleStatus: GetConnections under m.mu.RLock, then
\* GetConnectionInfo under each record's RLock (a record whose lock a worker
\* holds for good keeps the handler waiting for ever).
IpcList ==
    /\ ~Crashed
    /\ ipc.open
    /\ ipc.cur = NoLine
    /\ ipc.read < Len(ipc.log)
    /\ mu = 0
    /\ \A i \in Ids : connections[i] # NoConn => MuFree(connections[i])
    /\ LET l == ipc.log[ipc.read + 1] IN
        /\ l.cmd \in {"list", "status"}
        /\ ipc' = [ipc EXCEPT !.read = @ + 1, !.cur = l, !.resp = "ok"]
    /\ UNCHANGED <<connections, mu, onChange, nextConn, conn, worker, tunnel,
                   call, stopAll, calls, budget, stopMarked, timedOut>>
    /\ UNCHANGED <<pending, subscriber, session>>
    /\ UNCHANGED besideIpc

\* handleAdd, handleStop, handleRemove up to their manager call
\* (StartPortForwardTo..., StopPortForward, DeleteConnection), which the
\* goroutine then runs as caller IpcCaller.
IpcCall ==
    /\ ~Crashed
    /\ ipc.open
    /\ ipc.cur = NoLine
    /\ ipc.read < Len(ipc.log)
    /\ call[IpcCaller].pc = "idle"
    /\ LET l == ipc.log[ipc.read + 1] IN
        /\ l.cmd \in ManagerCmds
        /\ ipc' = [ipc EXCEPT !.read = @ + 1, !.cur = l]
    /\ call' = [call EXCEPT ![IpcCaller] = IdleCall]
    /\ UNCHANGED <<connections, mu, onChange, nextConn, conn, worker, tunnel,
                   stopAll, calls, budget, stopMarked, timedOut>>
    /\ UNCHANGED <<pending, subscriber, session>>
    /\ UNCHANGED besideIpc

\* The manager method a command's handler calls.
handlerCalls(cmd, op) ==
    \/ cmd = "add" /\ op \in {"start", "locked"}
    \/ cmd = "stop" /\ op = "stop"
    \/ cmd = "remove" /\ op \in {"delete", "locked"}

\* Which manager calls begin in the daemon: the connection's goroutine begins
\* the call of the request it handles, once; the handlers of other clients
\* stop and remove.
IpcDrives ==
    \A c \in Callers :
        (call[c].pc = "idle" /\ call'[c] # call[c])
        => IF c = IpcCaller
           THEN /\ ipc.cur.cmd \in ManagerCmds
                /\ ipc.resp = "none"
                /\ call[c].op = ""
                /\ handlerCalls(ipc.cur.cmd, call'[c].op)
                /\ call'[c].id = ipc.cur.id
           ELSE call'[c].op \in {"stop", "delete"}

\* The manager call returned err == nil.
callSucceeded(res) == res \in {"conn", "ok", "nilnil"}

\* The contexts cancelled when handleAdd returns (defer cancel()): the
\* request's ctx and with it connCtx of the record its Start created.
cancelAll(cn) ==
    [r \in Conns |-> IF cn[r].cancelFunc THEN [cn[r] EXCEPT !.ctxDone = TRUE]
                     ELSE cn[r]]

\* The rest of handleAdd / handleStop / handleRemove once the manager call is
\* back.  err != nil: the error goes into a failure response.  err == nil:
\* d.saveState(), then the success response; handleAdd builds it with
\* ConnectionToInfo(conn), which calls conn.GetConnectionInfo() and so
\* dereferences conn: a Start that returned (nil, nil) makes it panic.
IpcReturn ==
    /\ ~Crashed
    /\ ipc.cur.cmd \in ManagerCmds
    /\ ipc.resp = "none"
    /\ call[IpcCaller].pc = "idle"
    /\ call[IpcCaller].op # ""
    /\ LET res == call[IpcCaller].result IN
        /\ IF callSucceeded(res)
           THEN /\ mu = 0
                /\ \A i \in Ids : connections[i] # NoConn => MuFree(connections[i])
                /\ session' = savedSession
                /\ ipc' = IF ipc.cur.cmd = "add" /\ res = "nilnil"
                          THEN [ipc EXCEPT !.panic = TRUE]
                          ELSE [ipc EXCEPT !.resp = "ok"]
           ELSE /\ session' = session
                /\ ipc' = [ipc EXCEPT !.resp = res]
    /\ conn' = IF ipc.cur.cmd = "add" THEN cancelAll(conn) ELSE conn
    /\ UNCHANGED <<connections, mu, onChange, nextConn, worker, tunnel, call,
                   stopAll, calls, budget, stopMarked, timedOut>>
    /\ UNCHANGED <<pending, subscriber>>
    /\ UNCHANGED besideIpc

\* s.sendResponse(conn, resp): the line is written, or conn.Write fails on a
\* closed connection and handleConnection returns.
IpcSend ==
    /\ ~Crashed
    /\ ipc.resp # "none"
    /\ ipc' = [ipc EXCEPT !.cur = NoLine, !.resp = "none",
                          !.out = IF ipc.open
                                  THEN Append(@, [cmd |-> ipc.cur.cmd,
                                                  id |-> ipc.cur.id,
                                                  resp |-> ipc.resp])
                                  ELSE @]
    /\ UNCHANGED <<connections, mu, onChange, nextConn, conn, worker, tunnel,
                   call, stopAll, calls, budget, stopMarked, timedOut>>
    /\ UNCHANGED <<pending, subscriber, session>>
    /\ UNCHANGED besideIpc

\* The goroutine of handleShutdown wakes up: d.cancel().  Every handler's ctx
\* is a child of d.ctx, and every connCtx a child of a handler's ctx.
CancellerFires ==
    /\ ~Crashed
    /\ ipc.canceller = "sleeping"
    /\ ipc' = [ipc EXCEPT !.canceller = "fired", !.root = TRUE]
    /\ conn' = cancelAll(conn)
    /\ call' = [c \in Callers |->
                  IF call[c].pc = "start_wait"
                  THEN [call[c] EXCEPT !.ctxDone = TRUE] ELSE call[c]]
    /\ UNCHANGED <<connections, mu, onChange, nextConn, worker, tunnel,
                   stopAll, calls, budget, stopMarked, timedOut>>
    /\ UNCHANGED <<pending, subscriber, session>>
    /\ UNCHANGED besideIpc

\* Daemon.Run after d.shutdown(): the deferred d.server.Stop() closes the
\* listener and every client connection.
ServerStop ==
    /\ ~Crashed
    /\ stopAll.pc = "done"
    /\ ipc.open
    /\ ipc' = [ipc EXCEPT !.open = FALSE]
    /\ UNCHANGED <<connections, mu, onChange, nextConn, conn, worker, tunnel,
                   call, stopAll, calls, budget, stopMarked, timedOut>>
    /\ UNCHANGED <<pending, subscriber, session>>
    /\ UNCHANGED besideIpc

\* ---- the machine: PID file, socket file and the liveness check ----

\* The process ids of the machine; 0 stands for "none".
NumPids == 3
Pids == 1..NumPids

\* Daemon.Run, first step (writePIDFile): a daemon process with a fresh pid
\* writes its pid to the PID file.  StartDaemon launches it only after a
\* liveness check that answered not-running.
DaemonWritesPid(p) ==
    /\ host.daemon = 0
    /\ host.check = "not-running"
    /\ p \notin host.procs
    /\ host' = [host EXCEPT !.daemon = p, !.procs = @ \cup {p}, !.pidFile = p,
                            !.check = "none"]
    /\ UNCHANGED manager
    /\ UNCHANGED besideHost

\* Server.Start: removes a socket file left behind and listens on a new one.
DaemonListens ==
    /\ host.daemon # 0
    /\ host.sock # "listening"
    /\ host' = [host EXCEPT !.sock = "listening"]
    /\ UNCHANGED manager
    /\ UNCHANGED besideHost

\* Daemon.Run returns: the deferred Server.Stop (registered only once the
\* server listens) removes the socket file, the deferred removePIDFile removes
\* the PID file, the process ends.
DaemonExits ==
    /\ host.daemon # 0
    /\ host' = [host EXCEPT !.sock = IF @ = "listening" THEN "none" ELSE @,
                            !.pidFile = 0,
                            !.procs = @ \ {host.daemon},
                            !.daemon = 0]
    /\ UNCHANGED manager
    /\ UNCHANGED besideHost

\* The daemon is killed (SIGKILL, a panic, a power cut): no deferred call runs,
\* both files stay, the socket file has no listener any more.
DaemonCrashes ==
    /\ host.daemon # 0
    /\ host' = [host EXCEPT !.sock = IF @ = "listening" THEN "stale" ELSE @,
                            !.procs = @ \ {host.daemon},
                            !.daemon = 0]
    /\ UNCHANGED manager
    /\ UNCHANGED besideHost

\* Another program of the same user starts and gets a pid no live process has.
ProcessStarts(p) ==
    /\ p \notin host.procs
    /\ host' = [host EXCEPT !.procs = @ \cup {p}]
    /\ UNCHANGED manager
    /\ UNCHANGED besideHost

\* A program that is not the daemon ends.
ProcessExits(p) ==
    /\ p \in host.procs
    /\ p # host.daemon
    /\ host' = [host EXCEPT !.procs = @ \ {p}]
    /\ UNCHANGED manager
    /\ UNCHANGED besideHost

\* Client.Connect: the dial succeeds when a daemon listens on the socket file.
Connects(h) == h.sock = "listening"

\* cleanupStaleFiles: no PID file, nothing is removed; the pid of the file
\* answers signal 0, nothing is removed; otherwise both files are removed.
cleanupStaleFiles(h) ==
    IF h.pidFile = 0 THEN h
    ELSE IF h.pidFile \in h.procs THEN h
    ELSE [h EXCEPT !.pidFile = 0, !.sock = "none"]

\* IsDaemonRunning: true when the dial succeeds; otherwise cleanupStaleFiles
\* and false.
IsDaemonRunning ==
    /\ host' = IF Connects(host)
               THEN [host EXCEPT !.check = "running"]
               ELSE [cleanupStaleFiles(host) EXCEPT !.check = "not-running"]
    /\ host' # host
    /\ UNCHANGED manager
    /\ UNCHANGED besideHost

HostStep ==
    \/ \E p \in Pids : DaemonWritesPid(p)
    \/ DaemonListens
    \/ DaemonExits
    \/ DaemonCrashes
    \/ \E p \in Pids : ProcessStarts(p)
    \/ \E p \in Pids : ProcessExits(p)
    \/ IsDaemonRunning

InitHost == InitWith(MaxCalls, MaxConns)
NextHost == HostStep
SpecHost == InitHost /\ [][NextHost]_vars

\* ---- the session state file: Save and LoadState ----

\* The most entries of a saved registry.
MaxSaved == 2

\* The values the fields of a registry entry are drawn from; "true" is a
\* resource name that YAML would read as a boolean if written plainly.
SavedNames == {"web", "true"}
SavedPorts == {80, 8080}

\* SavedConnectionInfo: what GetAllConnectionsForSave projects of a record.
SavedConnectionInfo ==
    [Namespace : {"default"}, ResourceType : {"pod", "service"},
     ResourceName : SavedNames, LocalPort : SavedPorts, RemotePort : {80},
     WasActive : BOOLEAN]

\* The registry key of a record (manager.go, the id built by Start); the
\* registry holds one record per key.
savedKey(c) ==
    <<c.Namespace, c.ResourceType, c.ResourceName, c.LocalPort, c.RemotePort>>

\* The slices GetAllConnectionsForSave can return: the records of a registry in
\* any order of the map iteration.
Projections ==
    {sq \in UNION {[1..n -> SavedConnectionInfo] : n \in 0..MaxSaved} :
        \A j, k \in 1..Len(sq) : j # k => savedKey(sq[j]) # savedKey(sq[k])}

\* The decimal digits of an integer, as fmt / yaml write it.
RECURSIVE Digits(_)
Digits(n) == IF n < 10 THEN <<n>> ELSE Append(Digits(n \div 10), n % 10)

\* strconv.Atoi of a digit string.
RECURSIVE Atoi(_)
Atoi(ds) ==
    IF Len(ds) = 0 THEN 0
    ELSE 10 * Atoi(SubSeq(ds, 1, Len(ds) - 1)) + ds[Len(ds)]

\* YAML scalars: an integer is written plainly as its digits, a boolean as
\* true / false, a string plainly unless a plain scalar of that text would
\* resolve to another type, in which case it is quoted.
yamlInt(n) == [style |-> "plain", text |-> "", digits |-> Digits(n)]
yamlBool(b) ==
    [style |-> "plain", text |-> IF b THEN "true" ELSE "false", digits |-> <<>>]
yamlString(str) ==
    [style |-> IF str \in {"true", "false", "null"} THEN "quoted" ELSE "plain",
     text |-> str, digits |-> <<>>]

\* The yaml tags of SavedConnection.
SavedTags ==
    {"namespace", "resourceType", "resourceName", "localPort", "remotePort",
     "wasActive"}

\* yaml.Marshal of a SavedConnection whose WasActive field is not written.
MarshalOmitsWasActive(c) ==
    [t \in SavedTags |->
        CASE t = "namespace" -> yamlString(c.Namespace)
          [] t = "resourceType" -> yamlString(c.ResourceType)
          [] t = "resourceName" -> yamlString(c.ResourceName)
          [] t = "localPort" -> yamlInt(c.LocalPort)
          [] t = "remotePort" -> yamlInt(c.RemotePort)
          [] t = "wasActive" -> yamlBool(FALSE)]

\* yaml.Marshal of a SavedConnection: one mapping entry per tagged field.
Marshal(c) ==
    [t \in SavedTags |->
        CASE t = "namespace" -> yamlString(c.Namespace)
          [] t = "resourceType" -> yamlString(c.ResourceType)
          [] t = "resourceName" -> yamlString(c.ResourceName)
          [] t = "localPort" -> yamlInt(c.LocalPort)
          [] t = "remotePort" -> yamlInt(c.RemotePort)
          [] t = "wasActive" -> yamlBool(c.WasActive)]

\* yaml.Unmarshal of one mapping into a SavedConnection: a string field takes
\* the scalar's text, an int field parses the digits, a bool field is true for
\* a plain true.
Unmarshal(m) ==
    [Namespace |-> m["namespace"].text,
     ResourceType |-> m["resourceType"].text,
     ResourceName |-> m["resourceName"].text,
     LocalPort |-> Atoi(m["localPort"].digits),
     RemotePort |-> Atoi(m["remotePort"].digits),
     WasActive |-> m["wasActive"].style = "plain" /\ m["wasActive"].text = "true"]

\* Daemon.saveState: the Connections are rebuilt from the projection, in the
\* order the registry map was iterated, and SessionState.Save writes them.
StateSave(sq) ==
    /\ disk' = [projected |-> {sq[k] : k \in 1..Len(sq)},
                file |-> [exists |-> TRUE,
                          connections |-> [k \in 1..Len(sq) |-> Marshal(sq[k])]],
                loaded |-> <<>>,
                phase |-> "saved"]
    /\ UNCHANGED manager
    /\ UNCHANGED besideDisk

\* LoadState: a missing file is an empty session; otherwise the document is
\* parsed entry by entry.
LoadState ==
    /\ disk.phase # "loaded"
    /\ disk' = [disk EXCEPT
                  !.loaded = IF disk.file.exists
                             THEN [k \in 1..Len(disk.file.connections) |->
                                      Unmarshal(disk.file.connections[k])]
                             ELSE <<>>,
                  !.phase = "loaded"]
    /\ UNCHANGED manager
    /\ UNCHANGED besideDisk

DiskStep ==
    \/ \E sq \in Projections : StateSave(sq)
    \/ LoadState

InitDisk == InitWith(MaxCalls, MaxConns)
NextDisk == DiskStep
SpecDisk == InitDisk /\ [][NextDisk]_vars

\* ---- resolving a service target: backend pod and target port ----

\* The most entries of svc.Spec.Ports and of pods.Items.
MaxSvcPorts == 2
MaxPods == 2

\* intstr.IntOrString values of a service port's targetPort: unset (Int 0), a
\* number, a port name, an empty string.
TargetPorts ==
    {[Type |-> "Int", IntVal |-> 0, StrVal |-> ""],
     [Type |-> "Int", IntVal |-> 8080, StrVal |-> ""],
     [Type |-> "String", IntVal |-> 0, StrVal |-> "http"],
     [Type |-> "String", IntVal |-> 0, StrVal |-> ""]}

\* IntOrString.IntValue: the number, or Atoi of the string, which is 0 for a
\* port name and for the empty string.
IntValue(t) == IF t.Type = "Int" THEN t.IntVal ELSE 0

\* IntOrString.String: the string, or the decimal text of the number.
String(t) ==
    IF t.Type = "String" THEN t.StrVal
    ELSE IF t.IntVal = 0 THEN "0" ELSE "8080"

ServicePorts == [Port : {80, 443}, TargetPort : TargetPorts]

\* The containers of a pod, each with its declared ports: one container with
\* one port; two containers that both declare "http"; a container without
\* ports.
PodLayouts ==
    {<< <<[Name |-> "http", ContainerPort |-> 3000]>> >>,
     << <<[Name |-> "metrics", ContainerPort |-> 9090],
          [Name |-> "http", ContainerPort |-> 8000],
          [Name |-> "http", ContainerPort |-> 8001]>>,
        <<[Name |-> "http", ContainerPort |-> 9000]>> >>,
     << <<>> >>}

PodNames == <<"pod-a", "pod-b", "pod-c">>
Phases == {"Pending", "Running", "Failed"}

\* The listings Pods.List can return: the k-th pod is named PodNames[k].
PodLists ==
    {pl \in UNION {[1..n -> [Name : {PodNames[k] : k \in 1..MaxPods},
                             Phase : Phases, Containers : PodLayouts]]
                     : n \in 0..MaxPods} :
        \A k \in 1..Len(pl) : pl[k].Name = PodNames[k]}

PortLists == UNION {[1..n -> ServicePorts] : n \in 0..MaxSvcPorts}

\* The loop that picks any listed pod, whatever its phase.
firstPod(pods, k) ==
    IF k > Len(pods) THEN 0 ELSE k

\* The loop over pods.Items from index k: the index of the first pod whose phase
\* is Running, 0 when the loop ends without one.
RECURSIVE firstRunning(_, _)
firstRunning(pods, k) ==
    IF k > Len(pods) THEN 0
    ELSE IF pods[k].Phase = "Running" THEN k
    ELSE firstRunning(pods, k + 1)

\* The inner loop over one container's ports from index j: the first port named
\* namedPort sets targetPort and breaks; without one cur is kept.
RECURSIVE scanPorts(_, _, _, _)
scanPorts(cps, j, namedPort, cur) ==
    IF j > Len(cps) THEN cur
    ELSE IF cps[j].Name = namedPort THEN cps[j].ContainerPort
    ELSE scanPorts(cps, j + 1, namedPort, cur)

\* The outer loop over the pod's containers from index i: the break leaves
\* only the inner loop, so every container is scanned.
RECURSIVE scanContainers(_, _, _, _)
scanContainers(cs, i, namedPort, cur) ==
    IF i > Len(cs) THEN cur
    ELSE scanContainers(cs, i + 1, namedPort, scanPorts(cs[i], 1, namedPort, cur))

\* The resolution that never looks at the pod's containers.
RECURSIVE resolveIgnoresPod(_, _, _, _)
resolveIgnoresPod(ports, k, remote, pod) ==
    IF k > Len(ports) THEN remote
    ELSE IF ports[k].Port = remote
         THEN IF IntValue(ports[k].TargetPort) # 0
              THEN IntValue(ports[k].TargetPort)
              ELSE remote
    ELSE resolveIgnoresPod(ports, k + 1, remote, pod)

\* The loop over svc.Spec.Ports from index k: the first entry whose Port is the
\* declared port decides and the loop breaks; targetPort starts as the declared
\* port and stays so when nothing resolves.
RECURSIVE resolveTargetPort(_, _, _, _)
resolveTargetPort(ports, k, remote, pod) ==
    IF k > Len(ports) THEN remote
    ELSE IF ports[k].Port = remote
         THEN IF IntValue(ports[k].TargetPort) # 0
              THEN IntValue(ports[k].TargetPort)
              ELSE IF String(ports[k].TargetPort) # ""
                      /\ String(ports[k].TargetPort) # "0"
                   THEN scanContainers(pod.Containers, 1,
                                       String(ports[k].TargetPort), remote)
                   ELSE remote
    ELSE resolveTargetPort(ports, k + 1, remote, pod)

\* runPortForward for a service target, after the service was fetched: the
\* selector, the pod listing, the backend pod, the target port.  An error ends
\* the worker before any tunnel is dialled (podName stays "").
ResolveService(ports, sel, lerr, pods) ==
    /\ lookup.phase = "none"
    /\ LET remote == 80
           idx == firstRunning(pods, 1)
           failed(msg) ==
               [phase |-> "done", RemotePort |-> remote, ports |-> ports,
                selector |-> sel, listErr |-> lerr, pods |-> pods,
                err |-> msg, podName |-> "", targetPort |-> 0]
       IN  lookup' =
             IF ~sel THEN failed("service has no selector")
             ELSE IF lerr \/ Len(pods) = 0 THEN failed("no pods found for service")
             ELSE IF idx = 0 THEN failed("no running pods found for service")
             ELSE [phase |-> "done", RemotePort |-> remote, ports |-> ports,
                   selector |-> sel, listErr |-> lerr, pods |-> pods,
                   err |-> "", podName |-> pods[idx].Name,
                   targetPort |-> resolveTargetPort(ports, 1, remote, pods[idx])]
    /\ UNCHANGED manager
    /\ UNCHANGED besideLookup

\* The record is started again: a new resolution.
ResolveAgain ==
    /\ lookup.phase = "done"
    /\ lookup' = LookupIdle
    /\ UNCHANGED manager
    /\ UNCHANGED besideLookup

LookupStep ==
    \/ \E ports \in PortLists, sel \in BOOLEAN, lerr \in BOOLEAN, pods \in PodLists :
          ResolveService(ports, sel, lerr, pods)
    \/ ResolveAgain

InitLookup == InitWith(MaxCalls, MaxConns)
NextLookup == LookupStep
SpecLookup == InitLookup /\ [][NextLookup]_vars

\* ---- notifyChange, read by read ---------------------------------------------
\* notifyChange reads m.onChange twice, for the nil test and for the call, and
\* takes no lock; StopAll writes the field under m.mu.  The goroutine is a
\* worker or a caller that has made a change.

\* if m.onChange != nil: the first read.
NotifyCheck ==
    /\ ~Crashed
    /\ notify.pc = "idle"
    /\ \E r \in Conns : Allocated(r)
    /\ onChange
    /\ notify' = [notify EXCEPT !.pc = "checked"]
    /\ UNCHANGED manager
    /\ UNCHANGED besideNotify

\* m.onChange(): the field read again holds the callback, which is invoked.
NotifyCall ==
    /\ ~Crashed
    /\ notify.pc = "checked"
    /\ onChange
    /\ notify' = [pc |-> "invoked", detached |-> FALSE]
    /\ UNCHANGED manager
    /\ UNCHANGED besideNotify

\* m.onChange() after StopAll has stored nil: the field read again is nil and
\* the call panics.
NotifyCallNil ==
    /\ ~Crashed
    /\ notify.pc = "checked"
    /\ ~onChange
    /\ notify' = [pc |-> "nil call", detached |-> TRUE]
    /\ UNCHANGED manager
    /\ UNCHANGED besideNotify

\* m.onChange() after StopAll has stored nil, in a build that keeps the value
\* of the first read: the callback registered before is invoked.  The two
\* accesses race, so either outcome is one the build can produce.
NotifyCallStale ==
    /\ ~Crashed
    /\ notify.pc = "checked"
    /\ ~onChange
    /\ notify' = [pc |-> "invoked", detached |-> TRUE]
    /\ UNCHANGED manager
    /\ UNCHANGED besideNotify

\* The callback returns.
NotifyReturn ==
    /\ ~Crashed
    /\ notify.pc = "invoked"
    /\ subscriber = "ok"
    /\ notify' = NotifyIdle
    /\ UNCHANGED manager
    /\ UNCHANGED besideNotify

NotifyStep ==
    \/ NotifyCheck
    \/ NotifyCall
    \/ NotifyCallNil
    \/ NotifyCallStale
    \/ NotifyReturn

\* ---- saveState in the IPC handlers ---------------------------------------
\* Each client connection has its own goroutine (Server.acceptLoop), so the
\* handlers of different clients run saveState concurrently; saveState holds no
\* lock between its projection and its write.

\* handleAdd / handleStop / handleRemove after the manager call returned
\* err == nil: saveState's LoadState and GetAllConnectionsForSave.
HandlerProject(c) ==
    /\ ~Crashed
    /\ call[c].pc = "idle"
    /\ call[c].op \in {"start", "stop", "delete"}
    /\ callSucceeded(call[c].result)
    /\ saves.by[c].pc = "none"
    /\ mu = 0
    /\ \A i \in Ids : connections[i] # NoConn => MuFree(connections[i])
    /\ saves' = [saves EXCEPT
                   !.seq = @ + 1,
                   !.by[c] = [pc |-> "projected", seq |-> saves.seq + 1,
                              snap |-> savedSession]]
    /\ UNCHANGED manager
    /\ UNCHANGED besideSaves

\* saveState's state.Save(): the file is replaced by the handler's projection.
HandlerWrite(c) ==
    /\ ~Crashed
    /\ saves.by[c].pc = "projected"
    /\ session' = saves.by[c].snap
    /\ saves' = [saves EXCEPT !.fileSeq = saves.by[c].seq,
                              !.by[c].pc = "written"]
    /\ UNCHANGED <<connections, mu, onChange, nextConn, conn, worker, tunnel,
                   call, stopAll, calls, budget, stopMarked, timedOut>>
    /\ UNCHANGED <<pending, subscriber>>
    /\ UNCHANGED besideSaves

\* Each client sends one request: a handler begins one manager call.
OneRequest ==
    \A c \in Callers : (call[c].pc = "idle" /\ call'[c] # call[c]) => call[c].op = ""

\* ---- the system -----------------------------------------------------------
CallerStep ==
    \E c \in Callers :
        \/ \E i \in Ids : StartReject(c, i)
        \/ \E i \in Ids : StartInsert(c, i)
        \/ \E i \in Ids : BlockedHoldingMu(c, i)
        \/ StartReady(c)
        \/ StartWorkerErr(c)
        \/ StartTimeout(c)
        \/ \E i \in Ids : StopLookup(c, i)
        \/ StopMark(c)
        \/ StopSignal(c)
        \/ \E i \in Ids : RemoveConnection(c, i)
        \/ \E i \in Ids : DeleteConnection(c, i)

StopAllStep ==
    \/ StopAllDetach
    \/ StopAllSnapshot
    \/ StopAllMark
    \/ StopAllBlocked
    \/ StopAllSignal
    \/ StopAllReturn

WorkerStep ==
    \E r \in Conns :
        \/ WorkerResolveFail(r)
        \/ WorkerResolveOk(r)
        \/ WorkerReady(r)
        \/ WorkerStartupErr(r)
        \/ WorkerStartupStop(r)
        \/ WorkerStartupCtx(r)
        \/ WorkerTunnelEnded(r)
        \/ WorkerStopSignal(r)
        \/ WorkerCtxDone(r)

TunnelStep ==
    \E r \in Conns :
        \/ TunnelReady(r)
        \/ TunnelFail(r)
        \/ TunnelStopped(r)

RestoreStep ==
    \E c \in Callers :
        \/ \E i \in Ids : AddStoppedConnection(c, i)
        \/ RestoreFailed(c)

CancelStep ==
    \/ \E r \in Conns : ParentCancel(r)
    \/ \E c \in Callers : StartCtxDone(c)

\* The manager under callers of Start, Stop, Remove and Delete that hand
\* startPortForward a context nobody cancels (the UI's context.Background()).
Next == CallerStep \/ WorkerStep \/ TunnelStep

Spec == Init /\ [][Next]_vars

\* Spec with the goroutines of the workers scheduled: a worker that can take
\* a step eventually takes one.  Nothing obliges the callers to call.
SpecFair == Spec /\ WF_vars(WorkerStep)

\* The manager while the session restore runs at start-up (the daemon's
\* restoreConnections, the UI's restorePreviousSession).
NextRestore == CallerStep \/ RestoreStep \/ WorkerStep \/ TunnelStep

SpecRestore == Init /\ [][NextRestore]_vars

\* The manager with a subscriber whose callback may stop returning.
NextSubscriber == CallerStep \/ WorkerStep \/ TunnelStep \/ SubscriberStalls

SpecSubscriber == Init /\ [][NextSubscriber]_vars

\* The manager while a shutdown that persists the session runs: the session
\* is saved, then StopAll is called.
InitPersist == InitWith(MaxCalls, MaxConnsShutdown)

NextPersist == CallerStep \/ SaveState \/ StopAllStep \/ WorkerStep \/ TunnelStep

SpecPersist == InitPersist /\ [][NextPersist]_vars

\* The daemon: Daemon.Run serving one client connection (and the handlers of
\* other clients), then leaving its select on d.ctx.Done() into shutdown().
IpcStep ==
    \/ \E l \in Lines : ClientSend(l)
    \/ IpcRead
    \/ IpcList
    \/ IpcCall
    \/ IpcReturn
    \/ IpcSend
    \/ CancellerFires
    \/ ServerStop

\* The manager calls of the handlers, begun as IpcDrives says.
HandlerStartReject(c, i) == StartReject(c, i) /\ IpcDrives
HandlerStartInsert(c, i) == StartInsert(c, i) /\ IpcDrives
HandlerBlocked(c, i) == BlockedHoldingMu(c, i) /\ IpcDrives
HandlerStopLookup(c, i) == StopLookup(c, i) /\ IpcDrives
HandlerDelete(c, i) == DeleteConnection(c, i) /\ IpcDrives

HandlerStep ==
    \E c \in Callers :
        \/ \E i \in Ids : HandlerStartReject(c, i)
        \/ \E i \in Ids : HandlerStartInsert(c, i)
        \/ \E i \in Ids : HandlerBlocked(c, i)
        \/ StartReady(c)
        \/ StartWorkerErr(c)
        \/ StartTimeout(c)
        \/ StartCtxDone(c)
        \/ \E i \in Ids : HandlerStopLookup(c, i)
        \/ StopMark(c)
        \/ StopSignal(c)
        \/ \E i \in Ids : HandlerDelete(c, i)

\* Daemon.Run once d.ctx is done: d.shutdown() is saveState() and then
\* manager.StopAll().
DaemonSaveState == ipc.root /\ SaveState
DaemonStopAll == stopAll.pc = "saved" /\ StopAllDetach

ShutdownStep ==
    \/ DaemonSaveState
    \/ DaemonStopAll
    \/ StopAllSnapshot
    \/ StopAllMark
    \/ StopAllBlocked
    \/ StopAllSignal
    \/ StopAllReturn

InitDaemon == InitWith(MaxCalls, MaxConnsShutdown)

NextDaemon == IpcStep \/ HandlerStep \/ ShutdownStep \/ WorkerStep \/ TunnelStep

SpecDaemon == InitDaemon /\ [][NextDaemon]_vars

\* The same callers while the process shuts down (StopAll) and with contexts
\* that get cancelled (the daemon's per-request context under its root one).
InitShutdown == InitWith(MaxCallsShutdown, MaxConnsShutdown)

NextShutdown == CallerStep \/ StopAllStep \/ WorkerStep \/ TunnelStep \/ CancelStep

SpecShutdown == InitShutdown /\ [][NextShutdown]_vars

\* The daemon with one request on each of several client connections, while
\* it shuts down.
SavingStartReject(c, i) == StartReject(c, i) /\ OneRequest
SavingStartInsert(c, i) == StartInsert(c, i) /\ OneRequest
SavingBlocked(c, i) == BlockedHoldingMu(c, i) /\ OneRequest
SavingStopLookup(c, i) == StopLookup(c, i) /\ OneRequest
SavingDelete(c, i) == DeleteConnection(c, i) /\ OneRequest

SavingStep ==
    \E c \in Callers :
        \/ \E i \in Ids : SavingStartReject(c, i)
        \/ \E i \in Ids : SavingStartInsert(c, i)
        \/ \E i \in Ids : SavingBlocked(c, i)
        \/ StartReady(c)
        \/ StartWorkerErr(c)
        \/ StartTimeout(c)
        \/ \E i \in Ids : SavingStopLookup(c, i)
        \/ StopMark(c)
        \/ StopSignal(c)
        \/ \E i \in Ids : SavingDelete(c, i)
        \/ HandlerProject(c)
        \/ HandlerWrite(c)

SavingShutdown ==
    \/ SaveState
    \/ DaemonStopAll
    \/ StopAllSnapshot
    \/ StopAllMark
    \/ StopAllBlocked
    \/ StopAllSignal
    \/ StopAllReturn

InitSaving == InitWith(MaxCalls, MaxConnsShutdown)

NextSaving == SavingStep \/ SavingShutdown \/ WorkerStep \/ TunnelStep

SpecSaving == InitSaving /\ [][NextSaving]_vars

\* The manager of the UI while StopAll runs and a goroutine is inside
\* notifyChange.
InitNotify == InitWith(MaxCalls, MaxConnsShutdown)

NextNotify == CallerStep \/ StopAllStep \/ WorkerStep \/ TunnelStep \/ NotifyStep

SpecNotify == InitNotify /\ [][NextNotify]_vars

\* ==== properties =========================================================
\* The record is Starting or Active.
IsLive(r) == r # NoConn /\ conn[r].Status \in {StatusStarting, StatusActive}

\* The step is the entry of caller c into startPortForward.
StartStepOf(c) == CanBegin(c) /\ calls' = calls + 1 /\ call'[c].op = "start"

\* The step replaces the registry's record of identity i by another one.
Replaced(i) ==
    /\ connections[i] # NoConn
    /\ connections'[i] # NoConn
    /\ connections'[i] # connections[i]

\* The worker or the tunnel of record r is still running.
WorkerLive(w, t) ==
    \/ w.pc \in {"resolve", "startup", "active", "addlog", "in_callback"}
    \/ t.pc \in {"dialing", "ready"}

\* ---- C1 ------------------------------------------------------------------
\* C1: a Start issued while the registry's record of the identity is Starting
\* or Active returns AlreadyActive; no step inserts a new record over a live
\* one or allocates a second record for that identity while it is live; and
\* at any time an identity has at most one Starting record, which is the one
\* in the registry and has exactly its own worker.
C1_NoSecondStarting ==
    \A r1, r2 \in Conns :
        (/\ conn[r1].Status = StatusStarting
         /\ conn[r2].Status = StatusStarting
         /\ conn[r1].ID = conn[r2].ID)
        => (r1 = r2 /\ connections[conn[r1].ID] = r1 /\ worker[r1].pc # "none")

C1_LiveRejects ==
    /\ \A i \in Ids :
          IsLive(connections[i])
          => /\ connections'[i] \in {connections[i], NoConn}
             /\ nextConn' = nextConn \/ conn'[nextConn].ID # i
    /\ \A c \in Callers :
          (StartStepOf(c) /\ IsLive(connections[call'[c].id]))
          => (call'[c].pc = "idle" /\ call'[c].result = "AlreadyActive")

C1_NoDuplicateActive == [](C1_NoSecondStarting) /\ [][C1_LiveRejects]_vars

\* A Start has been turned away by a record that is still Starting, its worker
\* spawned, while both callers were inside the manager's Start.
C1_Witness ==
    \E c, d \in Callers :
        /\ c # d
        /\ call[c].op = "start" /\ call[c].result = "AlreadyActive"
        /\ call[d].pc = "start_wait"
        /\ connections[call[c].id] = call[d].conn
        /\ conn[call[d].conn].Status = StatusStarting
        /\ worker[call[d].conn].pc # "none"

\* ---- C2 ------------------------------------------------------------------
\* C2: a Start over a Stopped or Error record is not rejected; the step that
\* replaces the record cancels the old record's context, takes the old record
\* out of the registry and inserts the new Starting record, and after it no
\* worker or tunnel of the old record is still running.
C2_Replace ==
    /\ \A c \in Callers :
          (/\ StartStepOf(c)
           /\ connections[call'[c].id] # NoConn
           /\ ~IsLive(connections[call'[c].id]))
          => (call'[c].pc = "start_wait" /\ Replaced(call'[c].id))
    /\ \A i \in Ids :
          Replaced(i)
          => LET old == connections[i]
                 new == connections'[i]
             IN  /\ conn[old].Status \in {StatusStopped, StatusError}
                 /\ conn[old].cancelFunc => conn'[old].ctxDone
                 /\ \A j \in Ids : connections'[j] # old
                 /\ conn[new].Status = "none"
                 /\ conn'[new].Status = StatusStarting
                 /\ conn'[new].ID = i
                 /\ ~WorkerLive(worker'[old], tunnel'[old])

C2_RestartLeavesNoOldWorker == [][C2_Replace]_vars

\* ---- C3 ------------------------------------------------------------------
\* C3: once the tunnel's run call has failed on an Active record that nobody
\* stopped and the worker has recorded the failure (status Error with the
\* failure's message), the record carries a stop timestamp, its lock is free
\* again and the worker has terminated.
C3_FailureRecorded ==
    \A r \in Conns :
        (conn[r].Status = StatusError /\ conn[r].Error = "forward")
        => /\ conn[r].StoppedAt > 0
           /\ conn[r].mu = "free"
           /\ worker[r].pc = "done"

\* ---- C4 ------------------------------------------------------------------
\* C4: StopAll never waits for a lock that is never released: neither for the
\* lock of a record whose worker keeps it for good, nor for the registry lock
\* kept by a caller that is itself stuck behind such a record.
C4_StopAllNeverStuck ==
    /\ stopAll.pc # "blocked"
    /\ ~(stopAll.pc = "snapshot" /\ mu # 0)

\* ---- C5 ------------------------------------------------------------------
\* C5: a StopPortForward that reaches the status test of a record which an
\* earlier StopPortForward has already set Stopped returns without an error
\* and changes no field of the record.
C5_SecondStop ==
    \A c \in Callers :
        (/\ call[c].pc = "stop_mark"
         /\ stopMarked[call[c].conn]
         /\ call'[c] # call[c])
        => /\ conn'[call[c].conn] = conn[call[c].conn]
           /\ call'[c].pc = "idle"
           /\ call'[c].result \in {"ok", "Timeout", "ctxErr"}

C5_SecondStopChangesNothing == [][C5_SecondStop]_vars

\* ---- C6 ------------------------------------------------------------------
\* The step is the stop-signal part of StopPortForward (also the one issued by
\* startPortForward's timeout and cancel cases), of StopAll or of
\* DeleteConnection, acting on record r.
ManagerStopPath(r) ==
    \/ \E c \in Callers : /\ call[c].pc = "stop_signal"
                          /\ call[c].conn = r
                          /\ call'[c].pc = "idle"
    \/ stopAll.pc = "signal" /\ stopAll.cur = r /\ stopAll'.pc = "loop"
    \/ \E c \in Callers : /\ CanBegin(c)
                          /\ calls' = calls + 1
                          /\ call'[c].op = "delete"
                          /\ connections[call'[c].id] = r

\* C6: close() is executed at most once on a record's stopChan, and the step
\* that executes it is a manager stop path on that record, never a step of the
\* worker or of the tunnel.
C6_ClosedOnce == \A r \in Conns : conn[r].stopChan <= 1

C6_ClosedByManager ==
    \A r \in Conns :
        conn'[r].stopChan # conn[r].stopChan
        => /\ ManagerStopPath(r)
           /\ ~conn[r].stopOnce /\ conn'[r].stopOnce
           /\ worker' = worker /\ tunnel' = tunnel

C6_StopSignalClosedOnce == [](C6_ClosedOnce) /\ [][C6_ClosedByManager]_vars

\* A StopPortForward and a DeleteConnection have both run their stop path to
\* the end on the same record, whose stopChan was closed once.
C6_Witness ==
    \E c, d \in Callers, r \in Conns :
        /\ call[c].pc = "idle" /\ call[c].op = "delete" /\ call[c].result = "ok"
        /\ call[d].pc = "idle" /\ call[d].op = "stop" /\ call[d].result = "ok"
        /\ Allocated(r) /\ ~InRegistry(r)
        /\ stopMarked[r]
        /\ conn[r].stopOnce /\ conn[r].stopChan = 1

\* ---- C7 ------------------------------------------------------------------
\* C7: no step takes a record out of Error or changes its error string; in
\* particular a stop request on an Error record leaves status and error as
\* they are.
C7_ErrorStays ==
    \A r \in Conns :
        conn[r].Status = StatusError
        => (conn'[r].Status = StatusError /\ conn'[r].Error = conn[r].Error)

C7_StopKeepsError == [][C7_ErrorStays]_vars

\* ---- C8 ------------------------------------------------------------------
\* The step is caller c's RemoveConnection / DeleteConnection call.
RemoveStepOf(c) == CanBegin(c) /\ calls' = calls + 1 /\ call'[c].op = "remove"
DeleteStepOf(c) == CanBegin(c) /\ calls' = calls + 1 /\ call'[c].op = "delete"

\* C8 as stated: every deletion entry point turns a live record down with
\* CannotRemoveActive, registry, records and tunnels untouched, and removes a
\* Stopped or Error record.
C8_AllReject ==
    \A c \in Callers :
        (RemoveStepOf(c) \/ DeleteStepOf(c))
        => LET i == call'[c].id
               r == connections[i]
           IN  /\ IsLive(r) => /\ call'[c].result = "CannotRemoveActive"
                               /\ UNCHANGED <<connections, conn, tunnel>>
               /\ (r # NoConn /\ ~IsLive(r)) => connections'[i] = NoConn

C8_RemoveVsDelete ==
    \A c \in Callers :
        LET i == call'[c].id
            r == connections[i]
        IN  /\ RemoveStepOf(c)
               => /\ IsLive(r) => /\ call'[c].result = "CannotRemoveActive"
                                  /\ UNCHANGED <<connections, conn, worker, tunnel>>
                  /\ (r # NoConn /\ ~IsLive(r))
                     => /\ call'[c].result = "ok"
                        /\ connections'[i] = NoConn
                        /\ conn' = conn
            /\ (DeleteStepOf(c) /\ r # NoConn)
               => /\ call'[c].result = "ok"
                  /\ connections'[i] = NoConn
                  /\ conn'[r].stopOnce /\ conn'[r].stopChan = 1
                  /\ conn[r].cancelFunc => conn'[r].ctxDone
                  /\ IsLive(r) => /\ conn'[r].Status = StatusStopped
                                  /\ conn'[r].StoppedAt = conn[r].StoppedAt + 1
                  /\ ~IsLive(r) => /\ conn'[r].Status = conn[r].Status
                                   /\ conn'[r].StoppedAt = conn[r].StoppedAt

C9_RejectFrame ==
    \A c \in Callers :
        (/\ CanBegin(c)
         /\ calls' = calls + 1
         /\ call'[c].pc = "idle"
         /\ call'[c].result \in {"AlreadyActive", "CannotRemoveActive"})
        => UNCHANGED <<connections, conn, nextConn, worker, tunnel, mu>>

C9_RejectChangesNothing == [][C9_RejectFrame]_vars

\* A RemoveConnection has been turned down by an Active record whose tunnel is
\* up and whose context and stop signal are untouched.
C9_Witness ==
    \E c \in Callers :
        /\ call[c].pc = "idle" /\ call[c].op = "remove"
        /\ call[c].result = "CannotRemoveActive"
        /\ connections[call[c].id] # NoConn
        /\ LET r == connections[call[c].id] IN
              /\ conn[r].Status = StatusActive
              /\ ~conn[r].ctxDone /\ conn[r].stopChan = 0
              /\ tunnel[r].pc = "ready"

\* ---- C10 -----------------------------------------------------------------
\* C10: a record whose Start timed out before the ready signal or a worker
\* error is, once its worker is gone and no call is in progress, Stopped with
\* its context cancelled and its stop signal closed.
C10_TimeoutLeavesStopped ==
    \A r \in Conns :
        (/\ timedOut[r]
         /\ worker[r].pc = "done"
         /\ \A c \in Callers : call[c].pc = "idle")
        => /\ conn[r].Status = StatusStopped
           /\ conn[r].ctxDone
           /\ conn[r].stopOnce /\ conn[r].stopChan = 1

\* ---- C11 -----------------------------------------------------------------
\* C11: a worker whose endpoint resolution fails opens no tunnel, leaves the
\* record in Error with the failure's message and hands the failure to the
\* Start that waits for it; a Start that receives it returns it; afterwards
\* the worker never resolves again, no tunnel is ever opened for the record,
\* and the record leaves Error only in a step of a manager call.
C11_ResolveFailure ==
    /\ \A r \in Conns :
          (worker[r].pc = "resolve" /\ worker'[r].pc \notin {"resolve", "startup"})
          => /\ conn'[r].Status = StatusError
             /\ conn'[r].Error = "resolve"
             /\ tunnel'[r].pc = "none"
             /\ worker'[r].pc = "done"
             /\ Awaited(r) => worker'[r].ret = "err"
    /\ \A c \in Callers :
          (/\ call[c].pc = "start_wait"
           /\ conn[call[c].conn].Error = "resolve"
           /\ worker[call[c].conn].ret = "err"
           /\ worker'[call[c].conn].ret = "dropped"
           /\ call'[c].pc = "idle")
          => call'[c].result = "err"
    /\ \A r \in Conns :
          (/\ conn[r].Status = StatusError
           /\ conn[r].Error = "resolve"
           /\ conn'[r].Status # StatusError)
          => (call' # call \/ stopAll' # stopAll)

C11_NoRetry ==
    \A r \in Conns :
        conn[r].Error = "resolve"
        => (worker[r].pc = "done" /\ tunnel[r].pc = "none")

C11_ResolveFailureIsFinal == [](C11_NoRetry) /\ [][C11_ResolveFailure]_vars

\* A Start has returned the resolution failure of its worker: the record is
\* in the registry in Error with that message, the worker gone, no tunnel.
C11_Witness ==
    \E c \in Callers :
        /\ call[c].pc = "idle" /\ call[c].op = "start" /\ call[c].result = "err"
        /\ connections[call[c].id] # NoConn
        /\ LET r == connections[call[c].id] IN
              /\ conn[r].Status = StatusError /\ conn[r].Error = "resolve"
              /\ worker[r].pc = "done" /\ tunnel[r].pc = "none"

\* ---- C12 -----------------------------------------------------------------
\* C12: a record whose tunnel failed after it had become Active (the worker
\* took the failure in its second select and set Error, no stop having been
\* requested) leads, with no call needed, to a record of the same identity in
\* Starting.
C12_AutoReconnect ==
    \A r \in Conns :
        (/\ worker[r].pc = "addlog"
         /\ conn[r].Status = StatusError
         /\ ~stopMarked[r]
         /\ conn[r].stopChan = 0)
        ~> (\E q \in Conns : /\ conn[q].Status = StatusStarting
                              /\ conn[q].ID = conn[r].ID)

\* ---- C13 -----------------------------------------------------------------
\* The step is the restore loop's AddStoppedConnection for a saved entry: one
\* that was not active (or not available), or one whose Start has failed.
AddStepOf(c) == CanBegin(c) /\ calls' = calls + 1 /\ call'[c].op = "add"
RestoreFailedStepOf(c) ==
    /\ call[c].pc = "idle" /\ call[c].op = "start" /\ call'[c].op = "restore"
    /\ call[c].result \in {"err", "Timeout", "ctxErr"}

\* C13: when the restore loop is done with a saved entry that was not active
\* and had no record yet, or whose start attempt failed, the registry's record
\* of the entry is Stopped and no worker or tunnel of it is running.
C13_Placeholder ==
    \A c \in Callers :
        LET i == call'[c].id
            r == connections'[i]
        IN  ((AddStepOf(c) /\ connections[i] = NoConn) \/ RestoreFailedStepOf(c))
            => /\ r # NoConn
               /\ conn'[r].Status = StatusStopped
               /\ ~WorkerLive(worker'[r], tunnel'[r])

C13_RestoreLeavesStopped == [][C13_Placeholder]_vars

\* ---- C14 -----------------------------------------------------------------
\* C14: the restore loop's handling of a saved entry never ends in an error,
\* whether the entry's Start failed or not: the loop is back between two
\* entries with the entry's identity in the registry, under a record that
\* carries this identity; a record the identity already had is left as it is
\* and no other identity's entry is touched.  At any time a registry entry
\* holds a record of its own identity, and no record sits under two entries.
C14_OnePerIdentity ==
    /\ \A i \in Ids :
          connections[i] # NoConn => conn[connections[i]].ID = i
    /\ \A i, j \in Ids :
          (connections[i] # NoConn /\ connections[i] = connections[j]) => i = j

C14_Entry ==
    \A c \in Callers :
        LET i == call'[c].id IN
        /\ (\/ AddStepOf(c)
            \/ call[c].pc = "idle" /\ call[c].op = "start" /\ call'[c].op = "restore")
           => /\ call'[c].pc = "idle" /\ call'[c].result = "ok"
              /\ connections'[i] # NoConn
              /\ conn'[connections'[i]].ID = i
              /\ connections[i] # NoConn => UNCHANGED <<connections, conn>>
              /\ \A j \in Ids \ {i} : connections'[j] = connections[j]
        /\ (StartStepOf(c) /\ call'[c].pc = "start_wait")
           => /\ connections'[i] # NoConn
              /\ conn'[connections'[i]].ID = i
              /\ \A j \in Ids \ {i} : connections'[j] = connections[j]

C15_Save ==
    session' # session
    => /\ stopAll.pc = "idle"
       /\ UNCHANGED <<connections, conn>>
       /\ \A i \in Ids :
             /\ session'[i] = "none" <=> connections[i] = NoConn
             /\ session'[i] = "active"
                <=> (connections[i] # NoConn
                     /\ conn[connections[i]].Status = StatusActive)

C15_SavedFirst == session # NoSession => stopAll.pc # "idle"

C16_Cleared == stopAll.pc \notin {"idle", "saved"} => ~onChange

C16_StopAllStep ==
    stopAll' # stopAll
    => /\ conn' # conn => ~onChange
       /\ pending' = pending
       /\ subscriber' = subscriber
       /\ \A c \in Callers : call'[c] = call[c]
       /\ worker' = worker

C16_DetachedFirst == [](C16_Cleared) /\ [][C16_StopAllStep]_vars

\* StopAll has just marked a record that no Stop had marked, and has not yet
\* cancelled or signalled it.
C16_Witness ==
    /\ stopAll.pc = "signal"
    /\ ~onChange
    /\ ~stopMarked[stopAll.cur]
    /\ conn[stopAll.cur].Status = StatusStopped
    /\ conn[stopAll.cur].StoppedAt = 1
    /\ conn[stopAll.cur].stopChan = 0

C18_Quiet ==
    /\ \A c \in Callers : call[c].pc = "idle"
    /\ \A r \in Conns : worker[r].pc \in {"none", "done"}

C18_EveryChangeNotified == (onChange /\ C18_Quiet) => ~pending

\* ---- C19 -----------------------------------------------------------------
\* C19: no operation and no worker is ever held inside the callback: Start,
\* Stop, Remove and the workers go on whether or not the callback returns.
C19_NotifyNeverBlocks ==
    /\ \A c \in Callers : call[c].pc # "in_callback"
    /\ \A r \in Conns : worker[r].pc # "in_callback"

\* ---- C20 -----------------------------------------------------------------
\* C20: a worker whose record a Stop has marked and signalled (context
\* cancelled, stopChan closed) does not enter a wait that never ends: it does
\* not go on to lock conn.mu a second time in AddLog.
C20_Stopped(r) ==
    /\ stopMarked[r]
    /\ conn[r].ctxDone
    /\ conn[r].stopChan > 0

C20_StopStep ==
    \A r \in Conns :
        (C20_Stopped(r) /\ worker[r].pc # "addlog") => worker'[r].pc # "addlog"

C20_StoppedWorkerEnds == [][C20_StopStep]_vars

\* ---- C21 -----------------------------------------------------------------
\* C21: on an open connection the response lines answer the request lines in
\* order, one each: the k-th response is the one to the k-th request, every
\* request read has its response written or is the one being handled, and the
\* handler of a request never ends without a response.
C21_InOrder ==
    \A k \in 1..Len(ipc.out) :
        /\ k <= ipc.read
        /\ ipc.out[k].cmd = ipc.log[k].cmd
        /\ ipc.out[k].id = ipc.log[k].id

C21_EveryRequestAnswered ==
    ipc.open
    => /\ C21_InOrder
       /\ ipc.read = Len(ipc.out) + (IF ipc.cur = NoLine THEN 0 ELSE 1)
       /\ ~ipc.panic

\* ---- C22 -----------------------------------------------------------------
\* C22: the daemon's root context is cancelled, and the client's connection
\* is closed by the teardown, only after the acknowledgement of the shutdown
\* command has been written to the connection.
C22_Acked == \E k \in 1..Len(ipc.out) : ipc.out[k].cmd = "shutdown"

C22_AckBeforeCancel == (ipc.root \/ ~ipc.open) => C22_Acked

\* C23: when no daemon accepts on the socket, the liveness check answers
\* not-running whatever the PID file holds, and after the check no PID file and
\* no socket file of a daemon that is gone remain.
C23_StaleFilesRemoved ==
    [][(~Connects(host) /\ host.daemon = 0 /\ host'.check = "not-running"
         /\ host'.procs = host.procs /\ host'.daemon = 0)
       => (host'.pidFile = 0 /\ host'.sock = "none")]_vars

C25_Pod == CHOOSE p \in {lookup.pods[k] : k \in 1..Len(lookup.pods)} : p.Name = lookup.podName
C25_Matching == {k \in 1..Len(lookup.ports) : lookup.ports[k].Port = lookup.RemotePort}
C25_Entry == lookup.ports[CHOOSE k \in C25_Matching : \A j \in C25_Matching : k <= j].TargetPort
C25_Named ==
    {C25_Pod.Containers[i][j].ContainerPort :
        <<i, j>> \in {ij \in (1..3) \X (1..3) :
                        /\ ij[1] <= Len(C25_Pod.Containers)
                        /\ ij[2] <= Len(C25_Pod.Containers[ij[1]])
                        /\ C25_Pod.Containers[ij[1]][ij[2]].Name = C25_Entry.StrVal}}

\* C25: for a service target the forwarded port is the numeric targetPort of
\* the service port entry matching the declared port; for a named targetPort a
\* container port of the selected pod with that name; and the declared port
\* itself when no entry matches, the targetPort is unset or no container port
\* has the name.
C25_TargetPort ==
    (lookup.phase = "done" /\ lookup.err = "") =>
        IF C25_Matching = {} THEN lookup.targetPort = lookup.RemotePort
        ELSE IF C25_Entry.Type = "Int" /\ C25_Entry.IntVal # 0
             THEN lookup.targetPort = C25_Entry.IntVal
        ELSE IF C25_Entry.Type = "String" /\ C25_Entry.StrVal # "" /\ C25_Named # {}
             THEN lookup.targetPort \in C25_Named
        ELSE lookup.targetPort = lookup.RemotePort

\* A named targetPort was resolved from the ports of the selected pod's
\* containers, the second of two service port entries being the matching one.
C25_Witness ==
    /\ lookup.phase = "done"
    /\ lookup.err = ""
    /\ Len(lookup.ports) = 2
    /\ lookup.ports[1].Port # lookup.RemotePort
    /\ C25_Matching # {}
    /\ C25_Entry.Type = "String"
    /\ lookup.targetPort \in C25_Named
    /\ lookup.targetPort # lookup.RemotePort

C26_Running == {k \in 1..Len(lookup.pods) : lookup.pods[k].Phase = "Running"}
C26_Listed == lookup.phase = "done" /\ lookup.selector /\ ~lookup.listErr

\* C26: of a non-empty listing the backend is the first pod in listing order
\* whose phase is Running, and when none is Running the start fails with "no
\* running pods found for service" and no pod is dialled; an empty listing
\* fails with "no pods found for service".
C26_FirstRunningOrFail ==
    C26_Listed =>
        IF Len(lookup.pods) = 0
        THEN lookup.err = "no pods found for service" /\ lookup.podName = ""
        ELSE IF C26_Running = {}
        THEN lookup.err = "no running pods found for service" /\ lookup.podName = ""
        ELSE /\ lookup.err = ""
             /\ \E k \in C26_Running :
                   /\ \A j \in C26_Running : k <= j
                   /\ lookup.podName = lookup.pods[k].Name

\* The first listed pod is not Running, the second is, and it was selected.
C26_Witness ==
    /\ C26_Listed
    /\ Len(lookup.pods) = 2
    /\ lookup.pods[1].Phase = "Failed"
    /\ lookup.pods[2].Phase = "Running"
    /\ lookup.podName = lookup.pods[2].Name

\* C26 as stated: for any listing, when no listed pod is Running the start
\* fails with "no running pods found for service".
C26_NoRunningBackends ==
    (C26_Listed /\ C26_Running = {}) =>
        lookup.err = "no running pods found for service" /\ lookup.podName = ""

\* ---- C27 -----------------------------------------------------------------
\* C27: no worker waits for the lock of its record while it is itself the
\* holder of that lock, so that no record lock is held for ever.
C27_NoSelfAcquire ==
    \A r \in Conns : worker[r].pc = "addlog" => conn[r].mu # "worker"

\* ---- C28 -----------------------------------------------------------------
\* C28: a record that is Active and that nobody stopped has a worker that has
\* not returned, so that a later failure of its tunnel is still recorded.
C28_ActiveHasWorker ==
    \A r \in Conns :
        (/\ conn[r].Status = StatusActive
         /\ ~stopMarked[r]
         /\ conn[r].stopChan = 0)
        => worker[r].pc # "done"

\* ---- C29 -----------------------------------------------------------------
\* C29: a record that a Stop, StopAll or the start-timeout cleanup has set to
\* Stopped is not changed to Active or Error by any later step.
C29_StoppedStep ==
    \A r \in Conns :
        (conn[r].Status = StatusStopped /\ stopMarked[r] /\ connections[conn[r].ID] = r)
        => conn'[r].Status \notin {StatusActive, StatusError}

C29_StoppedStays == [][C29_StoppedStep]_vars

\* ---- C30 -----------------------------------------------------------------
\* The step is the return of handleAdd after a Start that returned a
\* connection without error, no Stop or Delete having touched the record.
C30_AddReturns ==
    /\ ipc.cur.cmd = "add"
    /\ ipc.resp = "none"
    /\ ipc'.resp = "ok"
    /\ call[IpcCaller].result = "conn"
    /\ connections[ipc.cur.id] # NoConn
    /\ ~stopMarked[connections[ipc.cur.id]]
    /\ conn[connections[ipc.cur.id]].stopChan = 0

\* C30: when Start has returned a connection without error the record is in
\* the registry with status Active, and the session saved by the add handler
\* right after it records the identity as active.
C30_AddStep ==
    C30_AddReturns
    => /\ conn[connections[ipc.cur.id]].Status = StatusActive
       /\ session'[ipc.cur.id] = "active"

C30_ReturnedIsActive == [][C30_AddStep]_vars

\* ---- C31 -----------------------------------------------------------------
\* The Start call that created record r has not returned yet: it waits in its
\* select or runs the StopPortForward of its timeout or cancellation case.
C31_StartPending(r) ==
    \E c \in Callers :
        /\ call[c].conn = r
        /\ call[c].pc # "idle"
        /\ call[c].pc = "start_wait" \/ call[c].after # ""

\* C31: once the Start call that created a record has returned, the record is
\* not left in Starting with its worker gone.
C31_NoOrphanStarting ==
    \A r \in Conns :
        (conn[r].Status = StatusStarting /\ worker[r].pc = "done")
        => C31_StartPending(r)

\* ---- C32 -----------------------------------------------------------------
\* The step is the write of StopPortForward, called from the timeout or
\* cancellation case of the select of caller c's startPortForward.
C32_StartStops(c) ==
    /\ call[c].pc = "stop_mark"
    /\ call[c].after # ""
    /\ conn[call[c].conn].Status # StatusStopped
    /\ conn'[call[c].conn].Status = StatusStopped

\* C32: the stop issued by a Start attempt on timeout or cancellation never
\* stops a record that another, newer Start attempt of the identity created
\* and is waiting for.
C32_StopStep ==
    \A c \in Callers :
        C32_StartStops(c)
        => ~\E d \in Callers : /\ d # c
                               /\ call[d].pc = "start_wait"
                               /\ call[d].conn = call[c].conn

C32_StopsOwnRecordOnly == [][C32_StopStep]_vars

\* ---- C33 -----------------------------------------------------------------
\* C33: a goroutine in notifyChange never calls a nil callback, and never
\* begins an invocation of the callback once StopAll has cleared it.
C33_NoCallAfterDetach ==
    /\ notify.pc # "nil call"
    /\ notify.pc = "invoked" => ~notify.detached

\* ---- C34 -----------------------------------------------------------------
\* C34: no goroutine is inside the change-notification callback while it holds
\* the registry lock.
C34_NoCallbackUnderLock ==
    \A c \in Callers : call[c].pc = "in_callback" => mu # c

\* ---- C35 -----------------------------------------------------------------
\* The step is handler c's write of the session file.
C35_Writes(c) == saves.by[c].pc = "projected" /\ saves'.by[c].pc = "written"

\* C35: a handler's write never replaces the content of the session file by
\* a different projection that is older than the one the file holds.
C35_WriteStep ==
    \A c \in Callers :
        (C35_Writes(c) /\ saves.by[c].seq < saves.fileSeq) => session' = session

C35_LatestSaveWins == [][C35_WriteStep]_vars

\* ---- C36 -----------------------------------------------------------------
\* C36: at the step by which StopAll returns, every record of the registry
\* that StopAll copied is Stopped, its context (if it has one) is cancelled
\* and its stop signal is closed.
C36_ReturnStep ==
    (stopAll.pc = "loop" /\ stopAll'.pc = "done")
    => \A r \in stopAll.seen :
          /\ conn'[r].Status = StatusStopped
          /\ conn'[r].cancelFunc => conn'[r].ctxDone
          /\ conn'[r].stopChan > 0

C36_StopAllStopsAll == [][C36_ReturnStep]_vars

\* ---- C37 -----------------------------------------------------------------
\* C37: a record carries an error message only while its status is Error.
C37_ErrorOnlyInError ==
    \A r \in Conns : conn[r].Error # "" => conn[r].Status = StatusError

\* ---- C38 -----------------------------------------------------------------
\* C38: a record that is Stopped or Error has a stop timestamp, and a record
\* that is Starting or Active and was never stopped has none.
C38_StoppedAtSet ==
    \A r \in Conns :
        /\ conn[r].Status \in {StatusStopped, StatusError} => conn[r].StoppedAt > 0
        /\ (conn[r].Status \in {StatusStarting, StatusActive} /\ ~stopMarked[r])
           => conn[r].StoppedAt = 0

\* ---- C39 -----------------------------------------------------------------
\* C39: AddStoppedConnection on an identity that has no record puts one new
\* record under it, Stopped, with no error, no cancelFunc, an open stopChan
\* and no worker or tunnel, and leaves every other identity and record alone;
\* on an identity that has a record, whatever its status, it changes neither
\* the registry nor any record, worker or tunnel.
C39_AddStep ==
    \A c \in Callers :
        AddStepOf(c) =>
            LET i == call'[c].id
                r == connections'[i]
            IN  IF connections[i] = NoConn
                THEN /\ r # NoConn
                     /\ ~Allocated(r)
                     /\ conn'[r].ID = i
                     /\ conn'[r].Status = StatusStopped
                     /\ conn'[r].Error = ""
                     /\ ~conn'[r].cancelFunc
                     /\ conn'[r].stopChan = 0
                     /\ worker'[r].pc = "none" /\ tunnel'[r].pc = "none"
                     /\ \A j \in Ids \ {i} : connections'[j] = connections[j]
                     /\ \A q \in Conns \ {r} : conn'[q] = conn[q]
                ELSE UNCHANGED <<connections, conn, nextConn, worker, tunnel>>

C39_PlaceholderOnlyIfAbsent == [][C39_AddStep]_vars

\* AddStoppedConnection has returned on an identity whose record, the only one
\* ever built, is Active: the record was there, and was left as it was.
C39_Witness ==
    \E c \in Callers :
        /\ call[c].pc = "idle" /\ call[c].op = "add"
        /\ nextConn = 2
        /\ connections[call[c].id] = 1
        /\ conn[1].Status = StatusActive

\* ---- C40 -----------------------------------------------------------------
\* C40: the list a save builds has, for every identity, an entry exactly if
\* the registry has a record of it at that moment, marked active exactly if
\* that record's status is Active; and the write puts this list in place of
\* the file's content, keeping no entry of the file it replaces.
C40_FromRegistry(list) ==
    \A i \in Ids :
        /\ list[i] = "none" <=> connections[i] = NoConn
        /\ list[i] = "active"
           <=> (connections[i] # NoConn
                /\ conn[connections[i]].Status = StatusActive)
        /\ list[i] \in {"none", "active", "inactive"}

C40_SaveStep ==
    /\ \A c \in Callers :
          (saves.by[c].pc = "none" /\ saves'.by[c].pc = "projected")
          => C40_FromRegistry(saves'.by[c].snap)
    /\ \A c \in Callers :
          C35_Writes(c) => session' = saves.by[c].snap
    /\ (stopAll.pc = "idle" /\ stopAll'.pc = "saved")
       => C40_FromRegistry(session')

C40_SaveRebuilds == [][C40_SaveStep]_vars

\* Two saves were written: the first when the record was Active, the second
\* when it was Stopped.  The file says inactive; the earlier file's active
\* entry is gone.
C40_Witness ==
    /\ saves.fileSeq = 2
    /\ \E c \in Callers :
          /\ saves.by[c].pc = "written"
          /\ saves.by[c].seq = 1
          /\ \E i \in Ids : /\ saves.by[c].snap[i] = "active"
                            /\ session[i] = "inactive"
                            /\ connections[i] # NoConn
                            /\ conn[connections[i]].Status = StatusStopped

====
